---- MODULE Spec2Model ----
(***************************************************************************)
(* Verification model of the auto-trader core:                             *)
(*   trader/core/safety.py   SafetyCheck  (SpecSafety)                     *)
(*   trader/rules/models.py  Rule         (SpecRules)                      *)
(*   trader/rules/loader.py  rule store   (SpecRules)                      *)
(*   trader/core/engine.py   TradingEngine (SpecEngine, SpecEngineOnce)    *)
(*   trader/core/backtest.py Backtester   (SpecBacktest, SpecPairing,      *)
(*                                         SpecDrawdown)                   *)
(* Money is counted in integer cents; Decimal comparisons and products are *)
(* exact, so integer arithmetic on cents agrees with them.                 *)
(***************************************************************************)
EXTENDS Integers, Sequences, FiniteSets, TLC

VARIABLES
    \* ---- SafetyCheck (safety.py) ----
    killed,         \* SafetyCheck._killed
    limits,         \* SafetyCheck.limits (a SafetyLimits)
    daily_pnl,      \* ledger.get_total_today_pnl(), cents
    trade_count,    \* ledger.get_trade_count_today()
    positions,      \* broker.get_position(symbol), market_value in cents
    buying_power,   \* broker.get_account().buying_power, cents
    sCall,          \* the last SafetyCheck call: name, arguments, return value
    killPending,    \* history: a kill() has happened and no reset() since
    \* ---- rule store (loader.py) and Rule (models.py) ----
    store,          \* config/rules.yaml: whether it exists and its "rules" records
    rCall,          \* the last rule operation: name, arguments, return value
    latched,        \* history: ids marked triggered and neither saved nor deleted since
    \* ---- TradingEngine (engine.py) ----
    running,        \* TradingEngine._running
    stop_requested, \* TradingEngine._stop_requested
    pc,             \* where the thread that called start() is: "idle" outside start()
    in_main,        \* whether start() was called on the main thread
    handlers,       \* the signals whose handler is _handle_shutdown
    elapsed,        \* _run_loop's elapsed, in ticks
    sleep_time,     \* _run_loop's sleep_time, in ticks
    sleep_left,     \* ticks time.sleep(sleep_time) still has to wait
    cycles,         \* cycles begun by this start()
    fails,          \* consecutive cycles of this start() that raised
    exit,           \* how the last start() ended: "none", "return", "raise"
    stopAsked,      \* history: a stop was requested while this start() was running
    sleptAfterStop, \* history: ticks slept by this start() with the stop flag set
    eCall,          \* history: who took the last step: "start", "run", "stop", "signal"
    onceCall,       \* the last TradingEngine.run_once() call: what it met and returned
    \* ---- Backtester (backtest.py), amounts in whole dollars ----
    initial_capital, \* Backtester.initial_capital
    bt_rules,       \* run()'s rules argument: the Rule objects, as they are now
    rules_given,    \* history: the Rule objects as run() was given them
    days,           \* run()'s days argument
    day,            \* the days simulated so far (the loop variable of backtest.py:96)
    rule_i,         \* the rule the loop of backtest.py:107 is at; 0 outside that loop
    cash,           \* run()'s cash
    bt_positions,   \* run()'s positions: symbol -> (qty, avg_price), held symbols only
    trades,         \* run()'s trades
    equity_curve,   \* run()'s equity_curve
    prices,         \* run()'s prices: symbol -> price
    btPc,           \* where run() is: "idle", "day", "rules", "done", "raised"
    result,         \* the BacktestResult run() returned
    btCheck,        \* history: the last rule the loop looked at, and what came of it
    \* ---- the result metrics of backtest.py:176-204 as functions ----
    metricsIn,      \* the trade list or equity curve a metric is computed from
    metricsOut,     \* the metric computed from it
    \* ---- two processes on the rules file (loader.py) ----
    proc,           \* per process: the call it is in, where it is, and its locals
    \* ---- the broker's book while approved buy orders fill ----
    shares,         \* symbol -> shares held (the qty of broker.get_position)
    fills           \* history: the orders filled so far

safetyVars == <<killed, limits, daily_pnl, trade_count, positions, buying_power,
                sCall, killPending>>
rulesVars == <<store, rCall, latched>>
engineVars == <<running, stop_requested, pc, in_main, handlers, elapsed, sleep_time,
                sleep_left, cycles, fails, exit, stopAsked, sleptAfterStop, eCall>>
onceVars == <<onceCall>>
backtestVars == <<initial_capital, bt_rules, rules_given, days, day, rule_i, cash,
                  bt_positions, trades, equity_curve, prices, btPc, result, btCheck>>
metricsVars == <<metricsIn, metricsOut>>
raceVars == <<proc>>
fillVars == <<shares, fills>>
notSafetyVars == <<rulesVars, engineVars, onceVars, backtestVars, metricsVars, raceVars,
                   fillVars>>
notRulesVars == <<safetyVars, engineVars, onceVars, backtestVars, metricsVars, raceVars,
                   fillVars>>
notEngineVars == <<safetyVars, rulesVars, onceVars, backtestVars, metricsVars, raceVars,
                   fillVars>>
notBacktestVars == <<safetyVars, rulesVars, engineVars, onceVars, metricsVars, raceVars,
                   fillVars>>
notMetricsVars == <<safetyVars, rulesVars, engineVars, onceVars, backtestVars, raceVars,
                   fillVars>>
notRaceVars == <<safetyVars, engineVars, onceVars, backtestVars, metricsVars,
                 fillVars>>
notFillVars == <<rulesVars, engineVars, onceVars, backtestVars, metricsVars,
                 raceVars>>

----------------------------------------------------------------------------
(* Bounds of the model *)

\* how far around a limit the ledger aggregates are drawn
Slack == 1

\* the most cycles one start() begins
MaxCycles == 3

\* the longest a cycle takes beyond poll_interval, in ticks
MaxOverrun == 1

----------------------------------------------------------------------------
(* SafetyLimits, safety.py:12-20 (dollar amounts converted to cents) *)

max_position_size == 100
max_position_value == 10000 * 100
max_daily_loss == 500 * 100
max_daily_trades == 50
max_order_value == 5000 * 100

SafetyLimits ==
    [max_position_size  |-> max_position_size,
     max_position_value |-> max_position_value,
     max_daily_loss     |-> max_daily_loss,
     max_daily_trades   |-> max_daily_trades,
     max_order_value    |-> max_order_value]

Symbols == {"AAPL", "TSLA"}
\* broker.get_position(symbol): None, or a Position with its market_value
NoPosition == [held |-> FALSE, market_value |-> 0]
Position(market_value) == [held |-> TRUE, market_value |-> market_value]

Around(x) == {x + d : d \in (0 - Slack)..Slack}

\* values the external ledger and broker may report, and the order parameters
\* callers pass: on, just below and just above every limit they are compared to
PnlValues == Around(0 - max_daily_loss) \cup {0}
CountValues == Around(max_daily_trades) \cup {0}
QuantityValues == {1, max_position_size, max_position_size + 1}
PriceValues == {100, max_order_value \div max_position_size,
                (max_order_value \div max_position_size) + 1}
PositionValues == {NoPosition, Position(max_position_value - max_order_value),
                   Position(max_position_value - max_order_value + 1)}
BuyingPowerValues == {0, max_order_value, 100 * max_order_value}

Verdict(ok, reason, amount) == [ok |-> ok, reason |-> reason, amount |-> amount]
OK == Verdict(TRUE, "OK", 0)

\* check_can_trade with the trade-count check made before the kill switch and the loss check
check_can_trade_count_first ==
    IF trade_count >= limits.max_daily_trades
    THEN Verdict(FALSE, "Daily trade limit reached", trade_count)
    ELSE IF killed
    THEN Verdict(FALSE, "Kill switch is active", 0)
    ELSE IF daily_pnl < 0 - limits.max_daily_loss
    THEN Verdict(FALSE, "Daily loss limit reached", daily_pnl)
    ELSE OK

\* check_can_trade with the loss limit compared by <= instead of <
check_can_trade_loss_inclusive ==
    IF killed
    THEN Verdict(FALSE, "Kill switch is active", 0)
    ELSE IF daily_pnl <= 0 - limits.max_daily_loss
    THEN Verdict(FALSE, "Daily loss limit reached", daily_pnl)
    ELSE IF trade_count >= limits.max_daily_trades
    THEN Verdict(FALSE, "Daily trade limit reached", trade_count)
    ELSE OK

\* safety.py:60-85
check_can_trade ==
    IF killed
    THEN Verdict(FALSE, "Kill switch is active", 0)
    ELSE IF daily_pnl < 0 - limits.max_daily_loss
    THEN Verdict(FALSE, "Daily loss limit reached", daily_pnl)
    ELSE IF trade_count >= limits.max_daily_trades
    THEN Verdict(FALSE, "Daily trade limit reached", trade_count)
    ELSE OK

\* safety.py:121-138, the checks made for buys
check_order_buy(symbol, order_value) ==
    LET current_position == positions[symbol]
        current_value == IF current_position.held
                         THEN current_position.market_value ELSE 0
        new_value == current_value + order_value
    IN  IF new_value > limits.max_position_value
        THEN Verdict(FALSE, "Position value would exceed limit", new_value)
        ELSE IF order_value > buying_power
        THEN Verdict(FALSE, "Insufficient buying power", order_value)
        ELSE OK

\* check_order that does not ask check_can_trade first
check_order_no_can_trade(symbol, quantity, price, is_buy) ==
    LET order_value == quantity * price
    IN  IF order_value > limits.max_order_value
        THEN Verdict(FALSE, "Order value exceeds limit", order_value)
        ELSE IF quantity > limits.max_position_size
        THEN Verdict(FALSE, "Quantity exceeds position size limit", quantity)
        ELSE IF is_buy
        THEN check_order_buy(symbol, order_value)
        ELSE OK

\* check_order with the quantity limit checked before the order value limit
check_order_quantity_first(symbol, quantity, price, is_buy) ==
    LET can == check_can_trade
        order_value == quantity * price
    IN  IF ~can.ok
        THEN Verdict(FALSE, can.reason, can.amount)
        ELSE IF quantity > limits.max_position_size
        THEN Verdict(FALSE, "Quantity exceeds position size limit", quantity)
        ELSE IF order_value > limits.max_order_value
        THEN Verdict(FALSE, "Order value exceeds limit", order_value)
        ELSE IF is_buy
        THEN check_order_buy(symbol, order_value)
        ELSE OK

\* check_order with the position and buying-power checks made for sells too
check_order_sells_checked(symbol, quantity, price, is_buy) ==
    LET can == check_can_trade
        order_value == quantity * price
    IN  IF ~can.ok
        THEN Verdict(FALSE, can.reason, can.amount)
        ELSE IF order_value > limits.max_order_value
        THEN Verdict(FALSE, "Order value exceeds limit", order_value)
        ELSE IF quantity > limits.max_position_size
        THEN Verdict(FALSE, "Quantity exceeds position size limit", quantity)
        ELSE check_order_buy(symbol, order_value)

\* safety.py:87-140
check_order(symbol, quantity, price, is_buy) ==
    LET can == check_can_trade
        order_value == quantity * price
    IN  IF ~can.ok
        THEN Verdict(FALSE, can.reason, can.amount)
        ELSE IF order_value > limits.max_order_value
        THEN Verdict(FALSE, "Order value exceeds limit", order_value)
        ELSE IF quantity > limits.max_position_size
        THEN Verdict(FALSE, "Quantity exceeds position size limit", quantity)
        ELSE IF is_buy
        THEN check_order_buy(symbol, order_value)
        ELSE OK

\* safety.py:142-160
get_status ==
    [kill_switch         |-> killed,
     daily_pnl           |-> daily_pnl,
     daily_pnl_limit     |-> 0 - limits.max_daily_loss,
     daily_pnl_remaining |-> limits.max_daily_loss + daily_pnl,
     trade_count         |-> trade_count,
     trade_limit         |-> limits.max_daily_trades,
     trades_remaining    |-> limits.max_daily_trades - trade_count,
     can_trade           |-> check_can_trade.ok]

NoArgs == [symbol |-> "", quantity |-> 0, price |-> 0, is_buy |-> FALSE]
Call(name, args, ret) == [name |-> name, args |-> args, ret |-> ret]

\* safety.py:26-43, with the ledger and the broker in any state they can report
SafetyStart ==
    /\ killed = FALSE
    /\ limits = SafetyLimits
    /\ daily_pnl \in PnlValues
    /\ trade_count \in CountValues
    /\ positions \in [Symbols -> PositionValues]
    /\ buying_power \in BuyingPowerValues
    /\ sCall = Call("init", NoArgs, OK)
    /\ killPending = FALSE

\* safety.py:45-48
Kill ==
    /\ killed' = TRUE
    /\ killPending' = TRUE
    /\ sCall' = Call("kill", NoArgs, OK)
    /\ UNCHANGED <<limits, daily_pnl, trade_count, positions, buying_power>>
    /\ UNCHANGED notSafetyVars

\* safety.py:50-53
Reset ==
    /\ killed' = FALSE
    /\ killPending' = FALSE
    /\ sCall' = Call("reset", NoArgs, OK)
    /\ UNCHANGED <<limits, daily_pnl, trade_count, positions, buying_power>>
    /\ UNCHANGED notSafetyVars

\* a check_can_trade that trips the kill switch when it denies
CheckCanTrade_trips_kill ==
    /\ sCall' = Call("check_can_trade", NoArgs, check_can_trade)
    /\ killed' = (killed \/ ~check_can_trade.ok)
    /\ UNCHANGED <<limits, daily_pnl, trade_count, positions, buying_power,
                   killPending>>
    /\ UNCHANGED notSafetyVars

\* safety.py:60-85
CheckCanTrade ==
    /\ sCall' = Call("check_can_trade", NoArgs, check_can_trade)
    /\ UNCHANGED <<killed, limits, daily_pnl, trade_count, positions, buying_power,
                   killPending>>
    /\ UNCHANGED notSafetyVars

\* safety.py:87-140
CheckOrder ==
    \E symbol \in Symbols, quantity \in QuantityValues, price \in PriceValues,
       is_buy \in BOOLEAN :
        /\ sCall' = Call("check_order",
                         [symbol |-> symbol, quantity |-> quantity,
                          price |-> price, is_buy |-> is_buy],
                         check_order(symbol, quantity, price, is_buy))
        /\ UNCHANGED <<killed, limits, daily_pnl, trade_count, positions,
                       buying_power, killPending>>
        /\ UNCHANGED notSafetyVars

\* safety.py:142-160
GetStatus ==
    /\ sCall' = Call("get_status", NoArgs, get_status)
    /\ UNCHANGED <<killed, limits, daily_pnl, trade_count, positions, buying_power,
                   killPending>>
    /\ UNCHANGED notSafetyVars

\* the ledger records trades and P&L between calls (safety.py:70, 78 read it)
LedgerChange ==
    /\ \E p \in PnlValues, c \in CountValues :
          /\ <<p, c>> # <<daily_pnl, trade_count>>
          /\ daily_pnl' = p
          /\ trade_count' = c
    /\ sCall' = Call("ledger", NoArgs, OK)
    /\ UNCHANGED <<killed, limits, positions, buying_power, killPending>>
    /\ UNCHANGED notSafetyVars

\* the broker's account and positions move between calls (safety.py:123, 136 read them)
BrokerChange ==
    /\ \E ps \in [Symbols -> PositionValues], bp \in BuyingPowerValues :
          /\ <<ps, bp>> # <<positions, buying_power>>
          /\ positions' = ps
          /\ buying_power' = bp
    /\ sCall' = Call("broker", NoArgs, OK)
    /\ UNCHANGED <<killed, limits, daily_pnl, trade_count, killPending>>
    /\ UNCHANGED notSafetyVars

SafetyNext ==
    \/ Kill
    \/ Reset
    \/ CheckCanTrade
    \/ CheckOrder
    \/ GetStatus
    \/ LedgerChange
    \/ BrokerChange

----------------------------------------------------------------------------
(* Buy orders that check_order approved, filled in full by the broker *)

\* the most orders that fill
MaxFills == 2

\* a broker whose book nobody looks at
FillsRest ==
    /\ shares = [s \in Symbols |-> 0]
    /\ fills = 0

\* the holdings a position starts from: none, one share, the whole limit
StartShares == {0, 1, max_position_size}

\* broker.get_position(symbol) for n shares worth price each (safety.py:123-126)
Holding(n, price) == IF n = 0 THEN NoPosition ELSE Position(n * price)

\* safety.py:26-43, with positions of at most max_position_size shares
FillsStart ==
    /\ killed = FALSE
    /\ limits = SafetyLimits
    /\ daily_pnl = 0
    /\ trade_count = 0
    /\ shares \in [Symbols -> StartShares]
    /\ \E price \in PriceValues :
          positions = [s \in Symbols |-> Holding(shares[s], price)]
    /\ buying_power \in BuyingPowerValues
    /\ sCall = Call("init", NoArgs, OK)
    /\ killPending = FALSE
    /\ fills = 0

\* the buy order check_order has just approved fills in full at its price: the
\* position grows by its quantity and its value, the buying power pays for it
Fill ==
    /\ sCall.name = "check_order"
    /\ sCall.ret.ok
    /\ sCall.args.is_buy
    /\ fills < MaxFills
    /\ LET order == sCall.args
           order_value == order.quantity * order.price
       IN  /\ shares' = [shares EXCEPT ![order.symbol] = @ + order.quantity]
           /\ positions' = [positions EXCEPT ![order.symbol] =
                                Position(@.market_value + order_value)]
           /\ buying_power' = buying_power - order_value
    /\ fills' = fills + 1
    /\ sCall' = Call("fill", sCall.args, OK)
    /\ UNCHANGED <<killed, limits, daily_pnl, trade_count, killPending>>
    /\ UNCHANGED notFillVars

FillsNext ==
    \/ CheckOrder
    \/ Fill


----------------------------------------------------------------------------
(* Rule, models.py *)

RuleIds == {"r1", "r2"}

\* Decimal amounts are whole numbers of cents; str() writes their decimal
\* digits and Decimal() reads them back (models.py:77, 92)
RECURSIVE DecimalToStr(_)
DecimalToStr(d) ==
    IF d < 10 THEN <<d>> ELSE Append(DecimalToStr(d \div 10), d % 10)

RECURSIVE StrToDecimal(_)
StrToDecimal(t) ==
    IF Len(t) = 0 THEN 0
    ELSE 10 * StrToDecimal(SubSeq(t, 1, Len(t) - 1)) + t[Len(t)]

\* str.upper() on the symbols in use (models.py:47)
Upper(symbol) ==
    CASE symbol = "aapl" -> "AAPL"
      [] symbol = "tsla" -> "TSLA"
      [] OTHER -> symbol

\* RuleAction and RuleCondition: member <-> value (models.py:10-21)
ActionValue(action) == IF action = "BUY" THEN "buy" ELSE "sell"
RuleAction(value) == IF value = "buy" THEN "BUY" ELSE "SELL"
ConditionValue(condition) == IF condition = "BELOW" THEN "below" ELSE "above"
RuleCondition(value) == IF value = "below" THEN "BELOW" ELSE "ABOVE"

\* a construction that raised ValueError gives no Rule
ValueError(message) == [error |-> "ValueError", message |-> message]
IsRule(r) == "error" \notin DOMAIN r /\ "quantity" \in DOMAIN r

\* __post_init__ that rejects negative numbers only
Rule_post_init_accepts_zero(self) ==
    IF self.quantity < 0
    THEN ValueError("Quantity must be positive")
    ELSE IF self.target_price < 0
    THEN ValueError("Target price must be positive")
    ELSE [self EXCEPT !.symbol = Upper(@)]

\* models.py:45-51: the object the constructor returns, or the error it raises
Rule_post_init(self) ==
    IF self.quantity <= 0
    THEN ValueError("Quantity must be positive")
    ELSE IF self.target_price <= 0
    THEN ValueError("Target price must be positive")
    ELSE [self EXCEPT !.symbol = Upper(@)]

\* Rule.__init__ and __post_init__ (models.py:35-51)
Rule(id, symbol, action, condition, target_price, quantity, enabled, triggered) ==
    Rule_post_init(
        [id |-> id, symbol |-> symbol, action |-> action, condition |-> condition,
         target_price |-> target_price, quantity |-> quantity,
         enabled |-> enabled, triggered |-> triggered, description |-> "None"])

\* the rules users create: the two of the tests (test_rules.py:173-186) under
\* either id and in every combination of the two flags
Rules ==
    {Rule(id, "AAPL", "BUY", "BELOW", 17000, 10, e, t) :
        id \in RuleIds, e \in BOOLEAN, t \in BOOLEAN}
    \cup
    {Rule(id, "tsla", "SELL", "ABOVE", 30000, 5, e, t) :
        id \in RuleIds, e \in BOOLEAN, t \in BOOLEAN}

\* Rule.check with strict comparisons
Rule_check_strict(self, current_price) ==
    [ret |-> IF ~self.enabled \/ self.triggered
             THEN FALSE
             ELSE IF self.condition = "BELOW"
             THEN current_price < self.target_price
             ELSE current_price > self.target_price,
     self |-> self]

\* models.py:53-68: the value returned, and the rule as the call leaves it
Rule_check(self, current_price) ==
    [ret |-> IF ~self.enabled \/ self.triggered
             THEN FALSE
             ELSE IF self.condition = "BELOW"
             THEN current_price <= self.target_price
             ELSE current_price >= self.target_price,
     self |-> self]

\* models.py:70-82
to_dict(self) ==
    [id |-> self.id, symbol |-> self.symbol, action |-> ActionValue(self.action),
     condition |-> ConditionValue(self.condition),
     target_price |-> DecimalToStr(self.target_price),
     quantity |-> self.quantity, enabled |-> self.enabled,
     triggered |-> self.triggered, description |-> self.description]

\* models.py:84-97
from_dict(data) ==
    Rule_post_init(
        [id |-> data.id, symbol |-> data.symbol, action |-> RuleAction(data.action),
         condition |-> RuleCondition(data.condition),
         target_price |-> StrToDecimal(data.target_price),
         quantity |-> data.quantity, enabled |-> data.enabled,
         triggered |-> data.triggered, description |-> data.description])

----------------------------------------------------------------------------
(* The rule store, loader.py. A store value is the rules file: whether it  *)
(* exists, and the records under its "rules" key.                          *)

NoFile == [exists |-> FALSE, rules |-> <<>>]
None == [id |-> "None"]

\* loader.py:19-39
load_rules(file) ==
    IF ~file.exists
    THEN <<>>
    ELSE [i \in 1..Len(file.rules) |-> from_dict(file.rules[i])]

\* loader.py:42-54
save_rules(rules) ==
    [exists |-> TRUE, rules |-> [i \in 1..Len(rules) |-> to_dict(rules[i])]]

\* loader.py:66-71: the index of the first rule with this id, 0 when there is none
ExistingIdx(rules, rule_id) ==
    IF \E i \in 1..Len(rules) : rules[i].id = rule_id
    THEN CHOOSE i \in 1..Len(rules) :
            /\ rules[i].id = rule_id
            /\ \A j \in 1..(i - 1) : rules[j].id # rule_id
    ELSE 0

\* save_rule that appends the rule without looking for its id
save_rule_appends(file, rule) == save_rules(Append(load_rules(file), rule))

\* loader.py:57-78: the file after save_rule(rule)
save_rule(file, rule) ==
    LET rules == load_rules(file)
        existing_idx == ExistingIdx(rules, rule.id)
    IN  IF existing_idx # 0
        THEN save_rules([rules EXCEPT ![existing_idx] = rule])
        ELSE save_rules(Append(rules, rule))

\* delete_rule that writes the file and reports success whatever it found
delete_rule_always_writes(file, rule_id) ==
    [file |-> save_rules(SelectSeq(load_rules(file), LAMBDA r : r.id # rule_id)),
     ret |-> TRUE]

\* loader.py:81-100: the file after delete_rule(rule_id) and the value returned
delete_rule(file, rule_id) ==
    LET rules == load_rules(file)
        kept == SelectSeq(rules, LAMBDA r : r.id # rule_id)
    IN  IF Len(kept) = Len(rules)
        THEN [file |-> file, ret |-> FALSE]
        ELSE [file |-> save_rules(kept), ret |-> TRUE]

\* loader.py:103-117
get_rule(file, rule_id) ==
    LET rules == load_rules(file)
        idx == ExistingIdx(rules, rule_id)
    IN  IF idx # 0 THEN rules[idx] ELSE None

\* enable_rule that also clears the triggered latch when it enables
enable_rule_clears_triggered(file, rule_id, enabled) ==
    LET rule == get_rule(file, rule_id)
    IN  IF rule = None
        THEN [file |-> file, ret |-> FALSE]
        ELSE [file |-> save_rule(file, [rule EXCEPT !.enabled = enabled,
                                                    !.triggered = ~enabled /\ @]),
              ret |-> TRUE]

\* loader.py:120-137: the file after enable_rule(rule_id, enabled) and the value returned
enable_rule(file, rule_id, enabled) ==
    LET rule == get_rule(file, rule_id)
    IN  IF rule = None
        THEN [file |-> file, ret |-> FALSE]
        ELSE [file |-> save_rule(file, [rule EXCEPT !.enabled = enabled]),
              ret |-> TRUE]

\* loader.py:140-156: the file after mark_triggered(rule_id) and the value returned
mark_triggered(file, rule_id) ==
    LET rule == get_rule(file, rule_id)
    IN  IF rule = None
        THEN [file |-> file, ret |-> FALSE]
        ELSE [file |-> save_rule(file, [rule EXCEPT !.triggered = TRUE]),
              ret |-> TRUE]

\* engine.py:93-94: the rules a cycle of the engine evaluates
active_rules(file) ==
    SelectSeq(load_rules(file), LAMBDA r : r.enabled /\ ~r.triggered)

\* the prices a rule is checked at: below, on and above its target
PricesAround(rule) == {rule.target_price - 1, rule.target_price, rule.target_price + 1}

RCall(name, id, flag, price, ret, rule, after) ==
    [name |-> name, id |-> id, flag |-> flag, price |-> price, ret |-> ret,
     rule |-> rule, after |-> after]

\* no rules file yet (loader.py:30-31)
RulesStart ==
    /\ store = NoFile
    /\ rCall = RCall("init", "", FALSE, 0, FALSE, None, None)
    /\ latched = {}

\* loader.py:57-78
SaveRule ==
    \E rule \in Rules :
        /\ store' = save_rule(store, rule)
        /\ rCall' = RCall("save_rule", rule.id, FALSE, 0, TRUE, rule, None)
        /\ latched' = latched \ {rule.id}
        /\ UNCHANGED notRulesVars

\* loader.py:81-100
DeleteRule ==
    \E rule_id \in RuleIds :
        LET r == delete_rule(store, rule_id)
        IN  /\ store' = r.file
            /\ rCall' = RCall("delete_rule", rule_id, FALSE, 0, r.ret, None, None)
            /\ latched' = latched \ {rule_id}
            /\ UNCHANGED notRulesVars

\* loader.py:103-117
GetRule ==
    \E rule_id \in RuleIds :
        LET rule == get_rule(store, rule_id)
        IN  /\ rCall' = RCall("get_rule", rule_id, FALSE, 0, rule # None, rule, None)
            /\ UNCHANGED <<store, latched>>
            /\ UNCHANGED notRulesVars

\* loader.py:120-137
EnableRule ==
    \E rule_id \in RuleIds, enabled \in BOOLEAN :
        LET r == enable_rule(store, rule_id, enabled)
        IN  /\ store' = r.file
            /\ rCall' = RCall("enable_rule", rule_id, enabled, 0, r.ret, None, None)
            /\ UNCHANGED latched
            /\ UNCHANGED notRulesVars

\* loader.py:140-156
MarkTriggered ==
    \E rule_id \in RuleIds :
        LET r == mark_triggered(store, rule_id)
        IN  /\ store' = r.file
            /\ rCall' = RCall("mark_triggered", rule_id, FALSE, 0, r.ret, None, None)
            /\ latched' = IF r.ret THEN latched \cup {rule_id} ELSE latched
            /\ UNCHANGED notRulesVars

\* models.py:53-68, on any rule a user can hold and at the prices around its target
CheckRule ==
    \E rule \in Rules :
        \E current_price \in PricesAround(rule) :
            LET r == Rule_check(rule, current_price)
            IN  /\ rCall' = RCall("check", rule.id, FALSE, current_price, r.ret,
                                  rule, r.self)
                /\ UNCHANGED <<store, latched>>
                /\ UNCHANGED notRulesVars

\* the quantities and target prices (cents) users try to construct a Rule with
QuantityArgs == {0 - 1, 0, 10}
TargetPriceArgs == {0 - 1, 0, 17000}

\* the arguments of a construction that is not one of Rules
RuleArgs ==
    {[id |-> id, symbol |-> "aapl", action |-> "BUY", condition |-> "BELOW",
      target_price |-> target_price, quantity |-> quantity,
      enabled |-> TRUE, triggered |-> FALSE, description |-> "None"] :
        id \in RuleIds, target_price \in TargetPriceArgs, quantity \in QuantityArgs}

\* the records a rules file can hold that from_dict is given: those of RuleArgs
\* whose target price has a string form in this model
RuleDicts ==
    {[a EXCEPT !.action = ActionValue(@), !.condition = ConditionValue(@),
               !.target_price = DecimalToStr(@)] :
        a \in {x \in RuleArgs : x.target_price >= 0}}

\* a user constructs a Rule (models.py:35-51) and, when that gave a Rule,
\* saves it (loader.py:57-78); rCall.rule is the arguments, rCall.after the
\* object constructed
NewRule ==
    \E a \in RuleArgs :
        LET rule == Rule(a.id, a.symbol, a.action, a.condition, a.target_price,
                         a.quantity, a.enabled, a.triggered)
        IN  /\ store' = IF IsRule(rule) THEN save_rule(store, rule) ELSE store
            /\ rCall' = RCall("Rule", a.id, FALSE, 0, IsRule(rule), a,
                              IF IsRule(rule) THEN rule ELSE None)
            /\ latched' = IF IsRule(rule) THEN latched \ {a.id} ELSE latched
            /\ UNCHANGED notRulesVars

\* models.py:84-97 on a record read from a file; rCall.rule is the record,
\* rCall.after the object constructed
FromDict ==
    \E data \in RuleDicts :
        LET rule == from_dict(data)
        IN  /\ rCall' = RCall("from_dict", data.id, FALSE, 0, IsRule(rule), data,
                              IF IsRule(rule) THEN rule ELSE None)
            /\ UNCHANGED <<store, latched>>
            /\ UNCHANGED notRulesVars

RulesNext ==
    \/ NewRule
    \/ FromDict
    \/ SaveRule
    \/ DeleteRule
    \/ GetRule
    \/ EnableRule
    \/ MarkTriggered
    \/ CheckRule

----------------------------------------------------------------------------
(* TradingEngine, engine.py. The thread that calls start() runs one        *)
(* statement per step; stop() from another thread and a signal's handler   *)
(* run between any two of them. Time is counted in ticks.                  *)

\* TradingEngine.poll_interval (engine.py:20, 31), in ticks
poll_interval == 2

Signals == {"SIGINT", "SIGTERM"}

Max(a, b) == IF a >= b THEN a ELSE b

CyclePcs == {"cycle_88", "cycle_93", "cycle_103"}
InStart == pc # "idle"

\* no except clause around _run_cycle(): what a cycle raises leaves the loop
after_cycle_uncaught(raised) == IF raised THEN "raise_55" ELSE "loop_79"

\* engine.py:73-79: where control goes when _run_cycle() returns or raises an
\* Exception: the except clause logs it and the loop goes on
after_cycle(raised) == "loop_79"

\* time.sleep that returns as soon as a stop is requested
sleep_returns_on_stop(left, stop) == left = 0 \/ stop

\* engine.py:83: time.sleep(sleep_time) returns when the whole time has passed;
\* a handler that returns or another thread's stop() does not cut it short
sleep_returns(left, stop) == left = 0

\* engine.py:17-36
EngineStart ==
    /\ running = FALSE
    /\ stop_requested = FALSE
    /\ pc = "idle"
    /\ in_main = TRUE
    /\ handlers = {}
    /\ elapsed = 0
    /\ sleep_time = 0
    /\ sleep_left = 0
    /\ cycles = 0
    /\ fails = 0
    /\ exit = "none"
    /\ stopAsked = FALSE
    /\ sleptAfterStop = 0
    /\ eCall = "init"

\* a caller enters start(), on the main thread or on another one
StartCall ==
    /\ pc = "idle"
    /\ pc' = "start_40"
    /\ in_main' \in BOOLEAN
    /\ cycles' = 0
    /\ fails' = 0
    /\ stopAsked' = FALSE
    /\ sleptAfterStop' = 0
    /\ UNCHANGED <<running, stop_requested, handlers, elapsed, sleep_time, sleep_left,
                   exit>>
    /\ eCall' = "start"
    /\ UNCHANGED notEngineVars

\* engine.py:40
Start40 ==
    /\ pc = "start_40"
    /\ running' = TRUE
    /\ pc' = "start_41"
    /\ UNCHANGED <<stop_requested, in_main, handlers, elapsed, sleep_time, sleep_left,
                   cycles, fails, exit, stopAsked, sleptAfterStop>>
    /\ eCall' = "run"
    /\ UNCHANGED notEngineVars

\* engine.py:41
Start41 ==
    /\ pc = "start_41"
    /\ stop_requested' = FALSE
    /\ pc' = "start_44"
    /\ UNCHANGED <<running, in_main, handlers, elapsed, sleep_time, sleep_left,
                   cycles, fails, exit, stopAsked, sleptAfterStop>>
    /\ eCall' = "run"
    /\ UNCHANGED notEngineVars

\* engine.py:44-45: signal.signal installs the handler on the main thread
InstallHandler ==
    /\ pc \in {"start_44", "start_45"}
    /\ in_main
    /\ handlers' = handlers \cup {IF pc = "start_44" THEN "SIGINT" ELSE "SIGTERM"}
    /\ pc' = IF pc = "start_44" THEN "start_45" ELSE "loop_70"
    /\ UNCHANGED <<running, stop_requested, in_main, elapsed, sleep_time, sleep_left,
                   cycles, fails, exit, stopAsked, sleptAfterStop>>
    /\ eCall' = "run"
    /\ UNCHANGED notEngineVars

\* engine.py:44: on any other thread signal.signal raises ValueError, which
\* leaves start() before its try statement is entered
InstallRaises ==
    /\ pc = "start_44"
    /\ ~in_main
    /\ pc' = "idle"
    /\ exit' = "raise"
    /\ UNCHANGED <<running, stop_requested, in_main, handlers, elapsed, sleep_time,
                   sleep_left, cycles, fails, stopAsked, sleptAfterStop>>
    /\ eCall' = "run"
    /\ UNCHANGED notEngineVars

\* engine.py:70-71: the loop test passes and a cycle begins
LoopEnter ==
    /\ pc = "loop_70"
    /\ ~stop_requested
    /\ cycles < MaxCycles
    /\ cycles' = cycles + 1
    /\ pc' = "cycle_88"
    /\ UNCHANGED <<running, stop_requested, in_main, handlers, elapsed, sleep_time,
                   sleep_left, fails, exit, stopAsked, sleptAfterStop>>
    /\ eCall' = "run"
    /\ UNCHANGED notEngineVars

\* engine.py:70, 53-54: the loop test fails, _run_loop returns into the finally
LoopExit ==
    /\ pc = "loop_70"
    /\ stop_requested
    /\ pc' = "finally_55"
    /\ UNCHANGED <<running, stop_requested, in_main, handlers, elapsed, sleep_time,
                   sleep_left, cycles, fails, exit, stopAsked, sleptAfterStop>>
    /\ eCall' = "run"
    /\ UNCHANGED notEngineVars

\* engine.py:85-106: one call of _run_cycle made: it goes on to its next call,
\* returns early (market closed, no active rules), returns at its end, or raises
CycleStep ==
    /\ pc \in CyclePcs
    /\ \E outcome \in {"next", "return", "raise"} :
          /\ outcome = "next" => pc # "cycle_103"
          /\ pc' = IF outcome = "next"
                   THEN (IF pc = "cycle_88" THEN "cycle_93" ELSE "cycle_103")
                   ELSE after_cycle(outcome = "raise")
          /\ fails' = IF outcome = "raise" THEN fails + 1
                      ELSE IF outcome = "return" THEN 0 ELSE fails
    /\ UNCHANGED <<running, stop_requested, in_main, handlers, elapsed, sleep_time,
                   sleep_left, cycles, exit, stopAsked, sleptAfterStop>>
    /\ eCall' = "run"
    /\ UNCHANGED notEngineVars

\* engine.py:79-80
Loop79 ==
    /\ pc = "loop_79"
    /\ \E e \in 0..(poll_interval + MaxOverrun) :
          /\ elapsed' = e
          /\ sleep_time' = Max(0, poll_interval - e)
    /\ pc' = "loop_82"
    /\ UNCHANGED <<running, stop_requested, in_main, handlers, sleep_left, cycles,
                   fails, exit, stopAsked, sleptAfterStop>>
    /\ eCall' = "run"
    /\ UNCHANGED notEngineVars

\* engine.py:82-83: the test before the sleep, and the call of time.sleep
Loop82 ==
    /\ pc = "loop_82"
    /\ IF sleep_time > 0 /\ ~stop_requested
       THEN /\ pc' = "sleep_83"
            /\ sleep_left' = sleep_time
       ELSE /\ pc' = "loop_70"
            /\ UNCHANGED sleep_left
    /\ UNCHANGED <<running, stop_requested, in_main, handlers, elapsed, sleep_time,
                   cycles, fails, exit, stopAsked, sleptAfterStop>>
    /\ eCall' = "run"
    /\ UNCHANGED notEngineVars

\* engine.py:83: a tick passes inside time.sleep
SleepTick ==
    /\ pc = "sleep_83"
    /\ ~sleep_returns(sleep_left, stop_requested)
    /\ sleep_left' = sleep_left - 1
    /\ sleptAfterStop' = IF stop_requested THEN sleptAfterStop + 1 ELSE sleptAfterStop
    /\ UNCHANGED <<running, stop_requested, pc, in_main, handlers, elapsed, sleep_time,
                   cycles, fails, exit, stopAsked>>
    /\ eCall' = "run"
    /\ UNCHANGED notEngineVars

\* engine.py:83: time.sleep returns
SleepReturn ==
    /\ pc = "sleep_83"
    /\ sleep_returns(sleep_left, stop_requested)
    /\ pc' = "loop_70"
    /\ UNCHANGED <<running, stop_requested, in_main, handlers, elapsed, sleep_time,
                   sleep_left, cycles, fails, exit, stopAsked, sleptAfterStop>>
    /\ eCall' = "run"
    /\ UNCHANGED notEngineVars

\* engine.py:52-56: the finally clause; then start() returns ("finally_55"), or
\* what _run_loop raised goes on to the caller ("raise_55")
Finally55 ==
    /\ pc \in {"finally_55", "raise_55"}
    /\ running' = FALSE
    /\ pc' = "idle"
    /\ exit' = IF pc = "raise_55" THEN "raise" ELSE "return"
    /\ UNCHANGED <<stop_requested, in_main, handlers, elapsed, sleep_time, sleep_left,
                   cycles, fails, stopAsked, sleptAfterStop>>
    /\ eCall' = "run"
    /\ UNCHANGED notEngineVars

\* engine.py:58-61: stop(), called by another thread at any moment
Stop ==
    /\ stop_requested' = TRUE
    /\ stopAsked' = (stopAsked \/ (InStart /\ running))
    /\ UNCHANGED <<running, pc, in_main, handlers, elapsed, sleep_time, sleep_left,
                   cycles, fails, exit, sleptAfterStop>>
    /\ eCall' = "stop"
    /\ UNCHANGED notEngineVars

\* engine.py:63-66: SIGINT or SIGTERM arrives and _handle_shutdown is its
\* handler; it runs between two statements of the main thread
HandleShutdown ==
    /\ \E signum \in Signals : signum \in handlers
    /\ stop_requested' = TRUE
    /\ stopAsked' = (stopAsked \/ (InStart /\ running))
    /\ UNCHANGED <<running, pc, in_main, handlers, elapsed, sleep_time, sleep_left,
                   cycles, fails, exit, sleptAfterStop>>
    /\ eCall' = "signal"
    /\ UNCHANGED notEngineVars

\* the steps of the thread inside start()
EngineRun ==
    \/ Start40
    \/ Start41
    \/ InstallHandler
    \/ InstallRaises
    \/ LoopEnter
    \/ LoopExit
    \/ CycleStep
    \/ Loop79
    \/ Loop82
    \/ SleepTick
    \/ SleepReturn
    \/ Finally55

EngineNext ==
    \/ StartCall
    \/ EngineRun
    \/ Stop
    \/ HandleShutdown

----------------------------------------------------------------------------
(* TradingEngine.run_once (engine.py:108-120) *)

\* what broker.is_market_open() does
MarketStates == {"open", "closed", "raise"}

\* what evaluator.run_once(dry_run) does: it returns order ids or raises
OrderIds == {<<>>, <<"o1">>, <<"o1", "o2">>}
EvaluatorOutcomes ==
    {[raised |-> FALSE, order_ids |-> ids] : ids \in OrderIds}
        \cup {[raised |-> TRUE, order_ids |-> <<>>]}

\* a run_once that asks the evaluator whatever the market does
run_once_ignores_market(market, evaluator) ==
    [raised |-> evaluator.raised, ret |-> evaluator.order_ids, evaluator_calls |-> 1]

\* engine.py:108-120: the market is asked first; the evaluator is called only
\* when it is open, and what it returns or raises is what run_once returns or
\* raises. Neither _running nor _stop_requested is read.
run_once(market, evaluator) ==
    IF market = "raise"
    THEN [raised |-> TRUE, ret |-> <<>>, evaluator_calls |-> 0]
    ELSE IF market = "closed"
    THEN [raised |-> FALSE, ret |-> <<>>, evaluator_calls |-> 0]
    ELSE [raised |-> evaluator.raised, ret |-> evaluator.order_ids,
          evaluator_calls |-> 1]

NoEvaluator == [raised |-> FALSE, order_ids |-> <<>>]

OnceStart ==
    onceCall = [name |-> "init", market |-> "closed", evaluator |-> NoEvaluator,
                out |-> run_once("closed", NoEvaluator)]

\* run_once() is called by any thread, whatever start() is doing
RunOnce ==
    /\ \E market \in MarketStates, evaluator \in EvaluatorOutcomes :
          onceCall' = [name |-> "run_once", market |-> market,
                       evaluator |-> IF market = "open" THEN evaluator ELSE NoEvaluator,
                       out |-> run_once(market, evaluator)]
    /\ eCall' = "run_once"
    /\ UNCHANGED <<running, stop_requested, pc, in_main, handlers, elapsed, sleep_time,
                   sleep_left, cycles, fails, exit, stopAsked, sleptAfterStop>>
    /\ UNCHANGED <<safetyVars, rulesVars, backtestVars, metricsVars, raceVars,
                   fillVars>>

EngineOnceNext ==
    \/ EngineNext
    \/ RunOnce

----------------------------------------------------------------------------
(* Backtester, backtest.py. Amounts are whole dollars. A Decimal quotient  *)
(* is kept as the fraction it stands for, in lowest terms.                 *)

Min(a, b) == IF a <= b THEN a ELSE b
Abs(a) == IF a < 0 THEN 0 - a ELSE a

RECURSIVE GCD(_, _)
GCD(a, b) == IF b = 0 THEN a ELSE GCD(b, a % b)

\* n / d for d > 0
Frac(n, d) ==
    LET g == GCD(Abs(n), d)
    IN  [num |-> n \div g, den |-> d \div g]
Zero == [num |-> 0, den |-> 1]
FracGreater(a, b) == a.num * b.den > b.num * a.den

\* backtest.py:13-22; the timestamp is the day's number
BacktestTrade(timestamp, symbol, side, quantity, price, rule_id) ==
    [timestamp |-> timestamp, symbol |-> symbol, side |-> side,
     quantity |-> quantity, price |-> price, rule_id |-> rule_id]

\* backtest.py:108-118: whether the loop treats the rule as triggering
bt_triggered(rule, current_price) ==
    IF ~rule.enabled
    THEN FALSE
    ELSE IF rule.condition = "BELOW" /\ current_price <= rule.target_price
    THEN TRUE
    ELSE IF rule.condition = "ABOVE" /\ current_price >= rule.target_price
    THEN TRUE
    ELSE FALSE

\* a loop that latches the rule it fills, as live trading does
rule_after_fill_latched(rule) == [rule EXCEPT !.triggered = TRUE]

\* backtest.py:107-162 assigns to no attribute of the rule
rule_after_fill(rule) == rule

\* a sell of the rule's whole quantity, whatever is held
sell_qty_whole_order(qty, quantity) == quantity

\* backtest.py:147
sell_qty(qty, quantity) == Min(qty, quantity)

\* a dict with one key set, and with one key deleted
DictSet(d, k, v) == [x \in DOMAIN d \cup {k} |-> IF x = k THEN v ELSE d[x]]
DictDel(d, k) == [x \in DOMAIN d \ {k} |-> d[x]]
EmptyDict == [x \in {} |-> 0]

\* a buy that fills whatever it costs
can_afford_anything(available, cost) == TRUE

\* backtest.py:124
can_afford(available, cost) == available >= cost

\* backtest.py:121-141: cash, positions and trades after the buy branch
bt_buy(rule, current_price, today, st) ==
    LET cost == current_price * rule.quantity
    IN  IF can_afford(st.cash, cost)
        THEN [cash |-> st.cash - cost,
              positions |->
                  IF rule.symbol \in DOMAIN st.positions
                  THEN LET old_qty == st.positions[rule.symbol].qty
                           old_price == st.positions[rule.symbol].avg_price
                           new_qty == old_qty + rule.quantity
                           new_avg == Frac(old_price.num * old_qty
                                             + current_price * rule.quantity * old_price.den,
                                           old_price.den * new_qty)
                       IN  DictSet(st.positions, rule.symbol,
                                   [qty |-> new_qty, avg_price |-> new_avg])
                  ELSE DictSet(st.positions, rule.symbol,
                               [qty |-> rule.quantity,
                                avg_price |-> Frac(current_price, 1)]),
              trades |-> Append(st.trades,
                                BacktestTrade(today, rule.symbol, "buy", rule.quantity,
                                              current_price, rule.id)),
              filled |-> TRUE]
        ELSE [st EXCEPT !.filled = FALSE]

\* a sell that pays a dollar of commission
proceeds_less_fee(current_price, sq) == current_price * sq - 1

\* backtest.py:148: what a sell credits to the cash
proceeds(current_price, sq) == current_price * sq

\* backtest.py:143-162: cash, positions and trades after the sell branch
bt_sell(rule, current_price, today, st) ==
    IF rule.symbol \in DOMAIN st.positions
    THEN LET qty == st.positions[rule.symbol].qty
             avg_price == st.positions[rule.symbol].avg_price
             sq == sell_qty(qty, rule.quantity)
         IN  [cash |-> st.cash + proceeds(current_price, sq),
              positions |->
                  IF sq >= qty
                  THEN DictDel(st.positions, rule.symbol)
                  ELSE DictSet(st.positions, rule.symbol,
                               [qty |-> qty - sq, avg_price |-> avg_price]),
              trades |-> Append(st.trades,
                                BacktestTrade(today, rule.symbol, "sell", sq,
                                              current_price, rule.id)),
              filled |-> TRUE]
    ELSE [st EXCEPT !.filled = FALSE]

\* backtest.py:107-162, one pass of the loop body for one rule
bt_apply(rule, current_price, today, st) ==
    IF ~bt_triggered(rule, current_price)
    THEN [st EXCEPT !.filled = FALSE]
    ELSE IF rule.action = "BUY"
    THEN bt_buy(rule, current_price, today, st)
    ELSE bt_sell(rule, current_price, today, st)

\* equity that leaves the positions out
equity_cash_only(c, ps, pr) == c

\* backtest.py:165-168: cash plus every held quantity at the day's price
RECURSIVE positions_value(_, _, _)
positions_value(ps, pr, held) ==
    IF held = {}
    THEN 0
    ELSE LET s == CHOOSE x \in held : TRUE
         IN  pr[s] * ps[s].qty + positions_value(ps, pr, held \ {s})
equity(c, ps, pr) == c + positions_value(ps, pr, DOMAIN ps)

\* a pairing that takes the newest buy
pop_index_newest(buy_list) == Len(buy_list)

\* backtest.py:187: pop(0) takes the oldest buy price
pop_index(buy_list) == 1

Without(seq, k) == SubSeq(seq, 1, k - 1) \o SubSeq(seq, k + 1, Len(seq))

\* backtest.py:177-191: the trades from the i-th on, with the buy prices not
\* yet consumed and the counts so far
RECURSIVE pair_trades(_, _, _, _)
pair_trades(ts, i, buy_prices, wl) ==
    IF i > Len(ts)
    THEN wl
    ELSE LET trade == ts[i]
         IN  IF trade.side = "buy"
             THEN pair_trades(ts, i + 1,
                      DictSet(buy_prices, trade.symbol,
                              Append(IF trade.symbol \in DOMAIN buy_prices
                                     THEN buy_prices[trade.symbol] ELSE <<>>,
                                     trade.price)),
                      wl)
             ELSE IF /\ trade.side = "sell"
                     /\ trade.symbol \in DOMAIN buy_prices
                     /\ buy_prices[trade.symbol] # <<>>
             THEN LET k == pop_index(buy_prices[trade.symbol])
                      buy_price == buy_prices[trade.symbol][k]
                  IN  pair_trades(ts, i + 1,
                          DictSet(buy_prices, trade.symbol,
                                  Without(buy_prices[trade.symbol], k)),
                          IF trade.price > buy_price
                          THEN [wl EXCEPT !.winning = @ + 1]
                          ELSE [wl EXCEPT !.losing = @ + 1])
             ELSE pair_trades(ts, i + 1, buy_prices, wl)

\* backtest.py:177-194: winning, losing and win_rate of a trade list
win_loss(ts) ==
    LET wl == pair_trades(ts, 1, EmptyDict, [winning |-> 0, losing |-> 0])
        total_completed == wl.winning + wl.losing
    IN  [winning |-> wl.winning, losing |-> wl.losing,
         win_rate |-> IF total_completed > 0
                      THEN Frac(wl.winning, total_completed) ELSE Zero]

\* a peak that stays at the first sample
peak_after_first_only(peak, eq) == peak

\* backtest.py:200-201
peak_after(peak, eq) == IF eq > peak THEN eq ELSE peak

\* the division by a zero peak raises (backtest.py:202)
Raised == [raised |-> TRUE]
IsRaised(x) == "raised" \in DOMAIN x

\* backtest.py:197-204: the samples from the i-th on, with the peak and the
\* largest drawdown so far
RECURSIVE drawdown_from(_, _, _, _)
drawdown_from(curve, i, peak, max_dd) ==
    IF i > Len(curve)
    THEN max_dd
    ELSE LET new_peak == peak_after(peak, curve[i])
         IN  IF new_peak = 0
             THEN Raised
             ELSE LET drawdown ==
                          IF new_peak > 0
                          THEN Frac(new_peak - curve[i], new_peak)
                          ELSE Frac(curve[i] - new_peak, 0 - new_peak)
                  IN  drawdown_from(curve, i + 1, new_peak,
                          IF FracGreater(drawdown, max_dd) THEN drawdown ELSE max_dd)
max_drawdown(curve) == drawdown_from(curve, 1, curve[1], Zero)

\* the most days one run simulates
MaxDays == 3

\* Backtester.__init__'s default capital (backtest.py:50)
DefaultCapital == 100000

\* the capitals a Backtester is made with: none, and enough for two buys
InitialCapitals == {0, 5}

\* what a day's random walk with its floor at $1 (backtest.py:102-104) can
\* leave a price at: the floor, and the dollars around the rules' targets
PriceLevels == {1, 2, 3}

\* the rules backtested: a buy in every combination of its flags, a sell of
\* less than the buy, a sell of more than the buy, and a buy of a second symbol
BuyRule(enabled, triggered) == Rule("b1", "AAPL", "BUY", "BELOW", 2, 2, enabled, triggered)
SellPart == Rule("s1", "aapl", "SELL", "ABOVE", 2, 1, TRUE, FALSE)
SellAll == Rule("s2", "AAPL", "SELL", "ABOVE", 3, 3, TRUE, FALSE)
BuyOther == Rule("b2", "TSLA", "BUY", "ABOVE", 2, 1, TRUE, FALSE)
RuleLists ==
    {<<>>}
        \cup {<<BuyRule(e, t)>> : e \in BOOLEAN, t \in BOOLEAN}
        \cup {<<BuyRule(TRUE, FALSE), SellPart>>,
              <<SellAll, BuyRule(TRUE, FALSE)>>,
              <<BuyRule(TRUE, TRUE), SellAll>>,
              <<BuyRule(TRUE, FALSE), BuyOther, SellPart>>}

NoResult == [returned |-> FALSE]
NoCheck == [rule_i |-> 0]

\* a Backtester nobody has run (backtest.py:50-57)
BacktestIdle ==
    /\ bt_rules = <<>>
    /\ rules_given = <<>>
    /\ days = 0
    /\ day = 0
    /\ rule_i = 0
    /\ cash = 0
    /\ bt_positions = EmptyDict
    /\ trades = <<>>
    /\ equity_curve = <<>>
    /\ prices = EmptyDict
    /\ btPc = "idle"
    /\ result = NoResult
    /\ btCheck = NoCheck

BacktestStart == initial_capital \in InitialCapitals /\ BacktestIdle
BacktestRest == initial_capital = DefaultCapital /\ BacktestIdle

\* backtest.py:85-91: every symbol starts at the target of its first rule,
\* times 1 + offset; the offset is taken as 0, and no price is read before
\* the first day's walk has replaced it
seed_prices(rs) ==
    [s \in {rs[i].symbol : i \in 1..Len(rs)} |->
        rs[CHOOSE i \in 1..Len(rs) :
              /\ rs[i].symbol = s
              /\ \A j \in 1..(i - 1) : rs[j].symbol # s].target_price]

\* backtest.py:59-94: run(rules, days) up to the day loop
BtRun ==
    /\ btPc = "idle"
    /\ \E rs \in RuleLists, d \in 0..MaxDays :
          /\ bt_rules' = rs
          /\ rules_given' = rs
          /\ days' = d
          /\ IF rs = <<>>
             THEN /\ btPc' = "raised"
                  /\ UNCHANGED <<cash, equity_curve, prices>>
             ELSE /\ btPc' = "day"
                  /\ cash' = initial_capital
                  /\ equity_curve' = <<initial_capital>>
                  /\ prices' = seed_prices(rs)
    /\ UNCHANGED <<initial_capital, day, rule_i, bt_positions, trades, result, btCheck>>
    /\ UNCHANGED notBacktestVars

\* backtest.py:96-104: a day begins and every symbol's price takes its walk
BtPrices ==
    /\ btPc = "day"
    /\ day < days
    /\ prices' \in [DOMAIN prices -> PriceLevels]
    /\ btPc' = "rules"
    /\ rule_i' = 1
    /\ UNCHANGED <<initial_capital, bt_rules, rules_given, days, day, cash,
                   bt_positions, trades, equity_curve, result, btCheck>>
    /\ UNCHANGED notBacktestVars

\* backtest.py:107-162: the loop body for the rule the loop is at
BtRule ==
    /\ btPc = "rules"
    /\ rule_i <= Len(bt_rules)
    /\ LET rule == bt_rules[rule_i]
           current_price == prices[rule.symbol]
           st == [cash |-> cash, positions |-> bt_positions, trades |-> trades,
                  filled |-> FALSE]
           after == bt_apply(rule, current_price, day, st)
       IN  /\ cash' = after.cash
           /\ bt_positions' = after.positions
           /\ trades' = after.trades
           /\ bt_rules' = [bt_rules EXCEPT ![rule_i] =
                              IF after.filled THEN rule_after_fill(@) ELSE @]
           /\ btCheck' = [rule_i |-> rule_i, rule |-> rule, day |-> day,
                          current_price |-> current_price,
                          triggered |-> bt_triggered(rule, current_price),
                          filled |-> after.filled,
                          held |-> IF rule.symbol \in DOMAIN bt_positions
                                   THEN bt_positions[rule.symbol].qty ELSE 0,
                          cash |-> cash]
    /\ rule_i' = rule_i + 1
    /\ UNCHANGED <<initial_capital, rules_given, days, day, equity_curve, prices,
                   btPc, result>>
    /\ UNCHANGED notBacktestVars

\* backtest.py:164-169: the day ends with its equity sample
BtEquity ==
    /\ btPc = "rules"
    /\ rule_i > Len(bt_rules)
    /\ equity_curve' = Append(equity_curve, equity(cash, bt_positions, prices))
    /\ day' = day + 1
    /\ rule_i' = 0
    /\ btPc' = "day"
    /\ UNCHANGED <<initial_capital, bt_rules, rules_given, days, cash, bt_positions,
                   trades, prices, result, btCheck>>
    /\ UNCHANGED notBacktestVars

\* backtest.py:171-219: the metrics and the result; the division by an
\* initial capital of 0 raises (backtest.py:174)
BtMetrics ==
    /\ btPc = "day"
    /\ day = days
    /\ IF initial_capital = 0
       THEN /\ btPc' = "raised"
            /\ UNCHANGED result
       ELSE LET final_capital == equity_curve[Len(equity_curve)]
                total_return == final_capital - initial_capital
                wl == win_loss(trades)
            IN  /\ btPc' = "done"
                /\ result' = [returned |-> TRUE,
                              initial_capital |-> initial_capital,
                              final_capital |-> final_capital,
                              total_return |-> total_return,
                              total_return_pct |-> Frac(total_return, initial_capital),
                              total_trades |-> Len(trades),
                              winning_trades |-> wl.winning,
                              losing_trades |-> wl.losing,
                              win_rate |-> wl.win_rate,
                              max_drawdown |-> max_drawdown(equity_curve),
                              trades |-> trades]
    /\ UNCHANGED <<initial_capital, bt_rules, rules_given, days, day, rule_i, cash,
                   bt_positions, trades, equity_curve, prices, btCheck>>
    /\ UNCHANGED notBacktestVars

BacktestNext ==
    \/ BtRun
    \/ BtPrices
    \/ BtRule
    \/ BtEquity
    \/ BtMetrics

----------------------------------------------------------------------------
(* The metrics of backtest.py:176-204 on any trade list and equity curve *)

\* the longest trade list paired, and the longest equity curve measured
MaxTrades == 4
MaxSamples == 4

\* the trades paired: buys and sells of one symbol at the prices of the
\* example of the claim, and a buy and a sell of another symbol
PairedTrades ==
    {BacktestTrade(0, "AAPL", "buy", 1, price, "b1") : price \in {100, 110}}
        \cup {BacktestTrade(0, "AAPL", "sell", 1, price, "s1") : price \in {100, 105, 120}}
        \cup {BacktestTrade(0, "TSLA", "buy", 1, 110, "b2"),
              BacktestTrade(0, "TSLA", "sell", 1, 105, "s2")}
TradeLists == UNION {[1..n -> PairedTrades] : n \in 0..MaxTrades}

\* the samples measured, in dollars: those of the example of the claim, none,
\* and a debt; a curve begins with the initial capital, which is not a debt
EquityValues == {0 - 10000, 0, 90000, 95000, 100000, 110000}
EquityCurves ==
    {c \in UNION {[1..n -> EquityValues] : n \in 1..MaxSamples} : c[1] >= 0}

NotComputed == [computed |-> FALSE]
MetricsRest == metricsIn = <<>> /\ metricsOut = NotComputed

\* backtest.py:176-194 on the trade list given
ComputeWinLoss ==
    /\ metricsOut = NotComputed
    /\ metricsOut' = [computed |-> TRUE, value |-> win_loss(metricsIn)]
    /\ UNCHANGED metricsIn
    /\ UNCHANGED notMetricsVars

\* backtest.py:196-204 on the equity curve given
ComputeDrawdown ==
    /\ metricsOut = NotComputed
    /\ metricsOut' = [computed |-> TRUE, value |-> max_drawdown(metricsIn)]
    /\ UNCHANGED metricsIn
    /\ UNCHANGED notMetricsVars

----------------------------------------------------------------------------
(* enable_rule and mark_triggered (loader.py:120-156) run by two processes *)
(* on one rules file. Each call reads the file in get_rule, reads it again *)
(* in save_rule, and writes it; the other process runs between these.      *)

\* the process of the user's command and the process of the engine
Procs == {"enable_rule", "mark_triggered"}

Idle == [pc |-> "idle", id |-> "", enabled |-> FALSE, rule |-> None, rules |-> <<>>,
         ret |-> FALSE]
RaceRest == proc = [p \in Procs |-> Idle]

\* the rules file when the two calls begin: one or two rules saved into a
\* new file
RaceStores ==
    {save_rule(NoFile, r) : r \in Rules}
        \cup {save_rule(save_rule(NoFile, r1), r2) :
                 r1 \in {r \in Rules : r.id = "r1" /\ ~r.triggered},
                 r2 \in {r \in Rules : r.id = "r2" /\ r.enabled}}

\* loader.py:66-78: save_rule after its load_rules, on the rules it loaded
save_loaded(rules, rule) ==
    LET existing_idx == ExistingIdx(rules, rule.id)
    IN  IF existing_idx # 0
        THEN save_rules([rules EXCEPT ![existing_idx] = rule])
        ELSE save_rules(Append(rules, rule))

\* loader.py:120, 140: a process is given its call
ProcCall(p) ==
    /\ proc[p].pc = "idle"
    /\ \E rule_id \in RuleIds,
          enabled \in IF p = "enable_rule" THEN BOOLEAN ELSE {FALSE} :
          proc' = [proc EXCEPT ![p] = [Idle EXCEPT !.pc = "get_rule", !.id = rule_id,
                                                   !.enabled = enabled]]
    /\ UNCHANGED <<store, rCall, latched>>
    /\ UNCHANGED notRaceVars

\* loader.py:131-135, 150-154: get_rule reads the file; the flag is set on the
\* object read, or the call returns False
ProcGetRule(p) ==
    /\ proc[p].pc = "get_rule"
    /\ LET rule == get_rule(store, proc[p].id)
       IN  proc' = [proc EXCEPT ![p] =
                      IF rule = None
                      THEN [@ EXCEPT !.pc = "done", !.ret = FALSE]
                      ELSE [@ EXCEPT !.pc = "load_rules",
                                     !.rule = IF p = "enable_rule"
                                              THEN [rule EXCEPT !.enabled = proc[p].enabled]
                                              ELSE [rule EXCEPT !.triggered = TRUE]]]
    /\ UNCHANGED <<store, rCall, latched>>
    /\ UNCHANGED notRaceVars

\* loader.py:64: save_rule reads the file again
ProcLoadRules(p) ==
    /\ proc[p].pc = "load_rules"
    /\ proc' = [proc EXCEPT ![p] = [@ EXCEPT !.pc = "save_rules",
                                             !.rules = load_rules(store)]]
    /\ UNCHANGED <<store, rCall, latched>>
    /\ UNCHANGED notRaceVars

\* loader.py:66-78, 137, 156: save_rule writes the file and the call returns True
ProcSaveRules(p) ==
    /\ proc[p].pc = "save_rules"
    /\ store' = save_loaded(proc[p].rules, proc[p].rule)
    /\ proc' = [proc EXCEPT ![p] = [@ EXCEPT !.pc = "done", !.ret = TRUE]]
    /\ UNCHANGED <<rCall, latched>>
    /\ UNCHANGED notRaceVars

RaceNext ==
    \/ \E p \in Procs : ProcCall(p)
    \/ \E p \in Procs : ProcGetRule(p)
    \/ \E p \in Procs : ProcLoadRules(p)
    \/ \E p \in Procs : ProcSaveRules(p)

----------------------------------------------------------------------------
(* Specifications: one per component, the others at rest *)

\* a SafetyCheck nobody calls
SafetyRest ==
    /\ killed = FALSE
    /\ limits = SafetyLimits
    /\ daily_pnl = 0
    /\ trade_count = 0
    /\ positions = [s \in Symbols |-> NoPosition]
    /\ buying_power = 0
    /\ sCall = Call("init", NoArgs, OK)
    /\ killPending = FALSE

\* the backtester and the metrics at rest
OthersRest == BacktestRest /\ MetricsRest /\ RaceRest /\ FillsRest

SafetyInit == RulesStart /\ EngineStart /\ OnceStart /\ OthersRest /\ SafetyStart
RulesInit == SafetyRest /\ EngineStart /\ OnceStart /\ OthersRest /\ RulesStart
EngineInit == SafetyRest /\ RulesStart /\ OnceStart /\ OthersRest /\ EngineStart
CoreRest ==
    SafetyRest /\ RulesStart /\ EngineStart /\ OnceStart /\ RaceRest /\ FillsRest
BacktestInit == CoreRest /\ MetricsRest /\ BacktestStart
PairingInit ==
    CoreRest /\ BacktestRest /\ metricsIn \in TradeLists /\ metricsOut = NotComputed
DrawdownInit ==
    CoreRest /\ BacktestRest /\ metricsIn \in EquityCurves /\ metricsOut = NotComputed

vars == <<safetyVars, rulesVars, engineVars, onceVars, backtestVars, metricsVars,
          raceVars, fillVars>>

SpecSafety == SafetyInit /\ [][SafetyNext]_vars
SpecRules == RulesInit /\ [][RulesNext]_vars

\* the thread inside start() keeps being scheduled, and both a cycle and a
\* sleep come to an end
SpecEngine == EngineInit /\ [][EngineNext]_vars /\ WF_vars(EngineRun)

\* the same engine with run_once() called at any moment
SpecEngineOnce == EngineInit /\ [][EngineOnceNext]_vars

SpecBacktest == BacktestInit /\ [][BacktestNext]_vars
SpecPairing == PairingInit /\ [][ComputeWinLoss]_vars
SpecDrawdown == DrawdownInit /\ [][ComputeDrawdown]_vars

\* the two processes, each step of a call taken whenever its process runs
RaceInit ==
    /\ SafetyRest /\ EngineStart /\ OnceStart /\ BacktestRest /\ MetricsRest
    /\ store \in RaceStores
    /\ rCall = RCall("init", "", FALSE, 0, FALSE, None, None)
    /\ latched = {}
    /\ RaceRest
    /\ FillsRest
SpecRace == RaceInit /\ [][RaceNext]_vars

\* a SafetyCheck asked about orders, and the approved buys filling
FillsInit ==
    /\ RulesStart /\ EngineStart /\ OnceStart
    /\ BacktestRest /\ MetricsRest /\ RaceRest
    /\ FillsStart
SpecFills == FillsInit /\ [][FillsNext]_vars

----------------------------------------------------------------------------
(* Claims about SafetyCheck, checked under SpecSafety *)

IsCheck == sCall.name \in {"check_can_trade", "check_order"}

\* C1: every check_can_trade() and check_order() issued after a kill() and
\* before the next reset() denies, whatever the ledger, the broker and the
\* order parameters are; and only kill() and reset() change the kill flag.
C1_KillSwitchDenies ==
    /\ [](killPending /\ IsCheck => sCall.ret.ok = FALSE)
    /\ [][killed' # killed => sCall'.name \in {"kill", "reset"}]_vars

\* C1 witness: an order that every limit allows is denied after kill()
C1_Witness ==
    /\ killPending
    /\ sCall.name = "check_order"
    /\ sCall.ret.ok = FALSE
    /\ daily_pnl = 0
    /\ trade_count = 0
    /\ sCall.args.quantity = 1
    /\ sCall.args.price = 100
    /\ ~sCall.args.is_buy

LossExceeded == daily_pnl < 0 - limits.max_daily_loss
TradesExhausted == trade_count >= limits.max_daily_trades

\* C2: check_can_trade() reports the first failing check in the order kill
\* switch, daily loss, daily trade count, and (True, "OK") when none fails.
C2_CanTradeOrder ==
    sCall.name = "check_can_trade" =>
        /\ killed => sCall.ret = Verdict(FALSE, "Kill switch is active", 0)
        /\ ~killed /\ LossExceeded =>
              sCall.ret = Verdict(FALSE, "Daily loss limit reached", daily_pnl)
        /\ ~killed /\ ~LossExceeded /\ TradesExhausted =>
              sCall.ret = Verdict(FALSE, "Daily trade limit reached", trade_count)
        /\ ~killed /\ ~LossExceeded /\ ~TradesExhausted => sCall.ret = OK

\* C2 witness: all three checks fail at once and the kill switch is reported
C2_Witness ==
    /\ sCall.name = "check_can_trade"
    /\ killed /\ LossExceeded /\ TradesExhausted
    /\ sCall.ret.reason = "Kill switch is active"

\* the five checks of check_order in the order the claim lists them: whether
\* each is violated by the arguments of the last call, and the reason it gives
C3_OrderValue == sCall.args.quantity * sCall.args.price
C3_CurrentValue ==
    IF sCall.args.symbol \in Symbols /\ positions[sCall.args.symbol].held
    THEN positions[sCall.args.symbol].market_value ELSE 0
C3_Violated ==
    << ~check_can_trade.ok,
       C3_OrderValue > limits.max_order_value,
       sCall.args.quantity > limits.max_position_size,
       sCall.args.is_buy /\ C3_CurrentValue + C3_OrderValue > limits.max_position_value,
       sCall.args.is_buy /\ C3_OrderValue > buying_power >>
C3_Reason ==
    << check_can_trade.reason,
       "Order value exceeds limit",
       "Quantity exceeds position size limit",
       "Position value would exceed limit",
       "Insufficient buying power" >>

\* C3: check_order() denies with the reason of the first violated check in
\* the order can-trade, order value, quantity, position value (buys),
\* buying power (buys); it allows exactly when none is violated, and a value
\* equal to a limit is no violation.
C3_OrderShortCircuit ==
    sCall.name = "check_order" =>
        /\ C3_Violated[1] => sCall.ret = check_can_trade
        /\ \A i \in 1..5 :
              (C3_Violated[i] /\ \A j \in 1..(i - 1) : ~C3_Violated[j]) =>
                  /\ sCall.ret.ok = FALSE
                  /\ sCall.ret.reason = C3_Reason[i]
        /\ (sCall.ret = OK) <=> (\A i \in 1..5 : ~C3_Violated[i])

\* C3 witness: a buy with every compared value exactly on its limit is allowed
C3_Witness ==
    /\ sCall.name = "check_order"
    /\ sCall.args.is_buy
    /\ C3_OrderValue = limits.max_order_value
    /\ sCall.args.quantity = limits.max_position_size
    /\ C3_CurrentValue + C3_OrderValue = limits.max_position_value
    /\ C3_OrderValue = buying_power
    /\ sCall.ret = OK

\* C4: with the kill switch off and trades left, a P&L of exactly
\* -max_daily_loss is allowed and any P&L below it is rejected with the
\* daily-loss reason.
C4_DailyLossBoundary ==
    (sCall.name = "check_can_trade" /\ ~killed /\ ~TradesExhausted) =>
        /\ daily_pnl = 0 - limits.max_daily_loss => sCall.ret = OK
        /\ daily_pnl < 0 - limits.max_daily_loss =>
              /\ sCall.ret.ok = FALSE
              /\ sCall.ret.reason = "Daily loss limit reached"

\* C4 witness: the P&L sits exactly on the limit and trading is allowed
C4_Witness ==
    /\ sCall.name = "check_can_trade"
    /\ ~killed /\ ~TradesExhausted
    /\ daily_pnl = 0 - limits.max_daily_loss
    /\ sCall.ret = OK

\* C4, the rejecting side: one cent below the limit
C4_WitnessBelow ==
    /\ sCall.name = "check_can_trade"
    /\ ~killed /\ ~TradesExhausted
    /\ daily_pnl = 0 - limits.max_daily_loss - 1
    /\ sCall.ret.ok = FALSE

\* the calls of SafetyCheck that only report
ReadOnlyCalls == {"check_can_trade", "check_order", "get_status"}

\* what the call recorded in sCall returns when it is made again now
SameCallAgain ==
    IF sCall.name = "check_can_trade" THEN check_can_trade
    ELSE IF sCall.name = "check_order"
    THEN check_order(sCall.args.symbol, sCall.args.quantity, sCall.args.price,
                     sCall.args.is_buy)
    ELSE get_status

\* C12: check_can_trade(), check_order() and get_status() are read-only: a call
\* leaves the kill flag, the limits, the ledger's aggregates and the broker's
\* account and positions unchanged; the same call made again in the unchanged
\* state returns the same result; and get_status()'s can_trade equals the
\* verdict of check_can_trade() in the same state.
C12_ChecksAreReadOnly ==
    /\ [][(sCall'.name \in ReadOnlyCalls) =>
            UNCHANGED <<killed, limits, daily_pnl, trade_count, positions,
                        buying_power>>]_vars
    /\ [](sCall.name \in ReadOnlyCalls => SameCallAgain = sCall.ret)
    /\ [](sCall.name = "get_status" => sCall.ret.can_trade = check_can_trade.ok)

\* get_status() reports can_trade False because of the ledger, the kill switch
\* being off
C12_Witness ==
    /\ sCall.name = "get_status"
    /\ ~sCall.ret.kill_switch
    /\ ~sCall.ret.can_trade
    /\ sCall.ret.trades_remaining = 0

\* a buy was denied for buying power, which the check read from the broker
C12_WitnessOrder ==
    /\ sCall.name = "check_order"
    /\ sCall.args.is_buy
    /\ sCall.ret.reason = "Insufficient buying power"
    /\ buying_power < sCall.ret.amount

\* C13: the position-value and buying-power checks are made for buys only:
\* the verdict and reason of a sell depend on the kill flag, the P&L, the
\* trade count, the quantity and the price alone, so a sell gets the same
\* verdict for every symbol, and the sell that was just checked gets the same
\* verdict again after the broker's positions and buying power have changed
\* in any way.
C13_SellsIgnoreBroker ==
    /\ [](\A quantity \in QuantityValues, price \in PriceValues :
             \A s1, s2 \in Symbols :
                check_order(s1, quantity, price, FALSE)
                    = check_order(s2, quantity, price, FALSE))
    /\ [][(sCall.name = "check_order" /\ ~sCall.args.is_buy /\ sCall'.name = "broker") =>
            \A args \in {sCall.args} :
                check_order(args.symbol, args.quantity, args.price, FALSE)'
                    = sCall.ret]_vars

\* a sell was allowed where the same order as a buy is denied for the
\* position value, and would also be denied for buying power
C13_Witness ==
    /\ sCall.name = "check_order"
    /\ ~sCall.args.is_buy
    /\ sCall.ret = OK
    /\ check_order(sCall.args.symbol, sCall.args.quantity, sCall.args.price, TRUE).reason
           = "Position value would exceed limit"
    /\ sCall.args.quantity * sCall.args.price > buying_power

\* the broker moved and a buy's verdict moved with it (a sell's did not)
C13_WitnessBuyMoves ==
    /\ sCall.name = "check_order"
    /\ sCall.args.is_buy
    /\ sCall.ret.reason = "Insufficient buying power"
    /\ check_order(sCall.args.symbol, sCall.args.quantity, sCall.args.price, FALSE) = OK

----------------------------------------------------------------------------
(* Claims about Rule and the rule store, checked under SpecRules *)

ConditionHolds(rule, price) ==
    \/ rule.condition = "BELOW" /\ price <= rule.target_price
    \/ rule.condition = "ABOVE" /\ price >= rule.target_price

\* C5: Rule.check(p) is True iff the rule is enabled, not triggered and its
\* condition holds inclusively (BELOW: p <= target, ABOVE: p >= target), and
\* check() leaves every field of the rule as it was.
C5_CheckIff ==
    rCall.name = "check" =>
        /\ rCall.ret <=> (/\ rCall.rule.enabled
                          /\ ~rCall.rule.triggered
                          /\ ConditionHolds(rCall.rule, rCall.price))
        /\ rCall.after = rCall.rule

\* C5 witness: an active ABOVE rule checked at exactly its target price fires
C5_Witness ==
    /\ rCall.name = "check"
    /\ rCall.rule.condition = "ABOVE"
    /\ rCall.price = rCall.rule.target_price
    /\ rCall.ret = TRUE

\* C5, the other side: a triggered rule does not fire although its condition holds
C5_WitnessTriggered ==
    /\ rCall.name = "check"
    /\ rCall.rule.enabled /\ rCall.rule.triggered
    /\ ConditionHolds(rCall.rule, rCall.price)
    /\ rCall.ret = FALSE

IsActive(file, rule_id) ==
    \E i \in 1..Len(active_rules(file)) : active_rules(file)[i].id = rule_id

\* what enable_rule(rCall'.id, rCall'.flag) may change in one step: the
\* enabled flag of the first stored rule with that id, and nothing else
C6_EnableChangesOnlyEnabled ==
    LET before == load_rules(store)
        after == load_rules(store')
        idx == ExistingIdx(before, rCall'.id)
    IN  /\ Len(after) = Len(before)
        /\ \A i \in 1..Len(before) :
              after[i] = IF i = idx
                         THEN [before[i] EXCEPT !.enabled = rCall'.flag]
                         ELSE before[i]

\* C6: once mark_triggered(id) has returned True, and while no save_rule or
\* delete_rule names that id, the stored rule keeps triggered = True through
\* every later enable_rule, mark_triggered, save_rule and delete_rule: its
\* check is False at every price and the engine does not select it; and
\* enable_rule changes only the enabled flag of the rule it names.
C6_TriggeredLatch ==
    /\ [](\A id \in latched :
            LET rule == get_rule(store, id)
            IN  /\ rule # None
                /\ rule.triggered
                /\ \A p \in PricesAround(rule) : ~Rule_check(rule, p).ret
                /\ ~IsActive(store, id))
    /\ [][rCall'.name = "enable_rule" => C6_EnableChangesOnlyEnabled]_vars

\* C6 witness: a latched rule has just been re-enabled, beside another rule
C6_Witness ==
    /\ "r1" \in latched
    /\ rCall.name = "enable_rule"
    /\ rCall.id = "r1"
    /\ rCall.flag = TRUE
    /\ rCall.ret = TRUE
    /\ get_rule(store, "r1").enabled
    /\ get_rule(store, "r1").triggered
    /\ Len(store.rules) = 2

\* the quantity and target price a construction was given: the argument
\* itself, or for from_dict the number its string stands for
GivenQuantity == rCall.rule.quantity
GivenTargetPrice ==
    IF rCall.name = "from_dict"
    THEN StrToDecimal(rCall.rule.target_price)
    ELSE rCall.rule.target_price

\* C14: constructing a Rule, directly or through Rule.from_dict, with
\* quantity <= 0 or target_price <= 0 fails and yields no Rule; so after any
\* sequence of saves, deletes, enables and triggered marks every Rule that
\* load_rules and get_rule return has quantity > 0 and target_price > 0.
C14_RulesArePositive ==
    /\ rCall.name \in {"Rule", "from_dict"} =>
          /\ (GivenQuantity <= 0 \/ GivenTargetPrice <= 0) =>
                (~rCall.ret /\ rCall.after = None)
          /\ rCall.ret =>
                (IsRule(rCall.after) /\ rCall.after.quantity = GivenQuantity
                    /\ rCall.after.target_price = GivenTargetPrice)
    /\ \A i \in 1..Len(load_rules(store)) :
          /\ IsRule(load_rules(store)[i])
          /\ load_rules(store)[i].quantity > 0
          /\ load_rules(store)[i].target_price > 0
    /\ \A rule_id \in RuleIds :
          get_rule(store, rule_id) # None =>
              /\ get_rule(store, rule_id).quantity > 0
              /\ get_rule(store, rule_id).target_price > 0
    /\ (rCall.name = "get_rule" /\ rCall.ret) =>
          (rCall.rule.quantity > 0 /\ rCall.rule.target_price > 0)

\* a construction with quantity 0 failed while the store holds a rule, and
\* the store was left as it was
C14_Witness ==
    /\ rCall.name = "Rule"
    /\ GivenQuantity = 0
    /\ GivenTargetPrice > 0
    /\ ~rCall.ret
    /\ Len(load_rules(store)) > 0

\* from_dict refused a record whose target price is "0"
C14_WitnessFromDict ==
    /\ rCall.name = "from_dict"
    /\ GivenQuantity > 0
    /\ rCall.rule.target_price = <<0>>
    /\ ~rCall.ret

\* a constructed rule was saved and is what get_rule returns
C14_WitnessSaved ==
    /\ rCall.name = "Rule"
    /\ rCall.ret
    /\ get_rule(store, rCall.id) = rCall.after

\* the positions in the file of the records with this id
IdxOf(file, rule_id) == {i \in 1..Len(file.rules) : file.rules[i].id = rule_id}

\* C21: save_rule is an upsert by id: from an empty store, after any
\* sequence of save_rule, delete_rule, enable_rule and mark_triggered the
\* store holds at most one record per id; saving the rule just saved a
\* second time gives the same store, with exactly one record for its id; a
\* save of an id that exists replaces the record at its position and leaves
\* the other records and their order as they were, and a save of a new id
\* appends the rule at the end.
C21_UpsertById ==
    /\ [](\A rule_id \in RuleIds : Cardinality(IdxOf(store, rule_id)) <= 1)
    /\ [](rCall.name = "save_rule" =>
             /\ save_rule(store, rCall.rule) = store
             /\ Cardinality(IdxOf(save_rule(store, rCall.rule), rCall.id)) = 1)
    /\ [][(rCall'.name = "save_rule") =>
            \A saved \in {rCall'.rule} :
                IF IdxOf(store, saved.id) # {}
                THEN /\ Len(store'.rules) = Len(store.rules)
                     /\ \A i \in 1..Len(store.rules) :
                           store'.rules[i] = IF i \in IdxOf(store, saved.id)
                                             THEN to_dict(saved)
                                             ELSE store.rules[i]
                ELSE store'.rules = Append(store.rules, to_dict(saved))]_vars

\* a save replaced the first of two records and the second is still second
C21_Witness ==
    /\ rCall.name = "save_rule"
    /\ Len(store.rules) = 2
    /\ store.rules[1] = to_dict(rCall.rule)
    /\ store.rules[2].id # rCall.id

\* a save appended a second record
C21_WitnessAppend ==
    /\ rCall.name = "save_rule"
    /\ Len(store.rules) = 2
    /\ store.rules[2] = to_dict(rCall.rule)

\* a store whose file exists and holds no rule
EmptyFile == [exists |-> TRUE, rules |-> <<>>]
NoEffect == [file |-> store, ret |-> FALSE]

\* C22: delete_rule, enable_rule and mark_triggered with an id that is not in
\* the store return False and leave the store as it is, get_rule returns
\* None for it, and load_rules on a missing or empty store returns the empty
\* list; delete_rule with an id that is in the store returns True and removes
\* exactly the records with that id.
C22_AbsentIdsNoEffect ==
    /\ [](\A rule_id \in RuleIds :
             IdxOf(store, rule_id) = {} =>
                 /\ delete_rule(store, rule_id) = NoEffect
                 /\ \A enabled \in BOOLEAN :
                       enable_rule(store, rule_id, enabled) = NoEffect
                 /\ mark_triggered(store, rule_id) = NoEffect
                 /\ get_rule(store, rule_id) = None)
    /\ [](load_rules(NoFile) = <<>> /\ load_rules(EmptyFile) = <<>>)
    /\ [][(/\ rCall'.name \in {"delete_rule", "enable_rule", "mark_triggered"}
            /\ IdxOf(store, rCall'.id) = {}) =>
                (~rCall'.ret /\ store' = store)]_vars
    /\ [][(rCall'.name = "delete_rule" /\ IdxOf(store, rCall'.id) # {}) =>
            /\ rCall'.ret
            /\ IdxOf(store', rCall'.id) = {}
            /\ store'.rules = SelectSeq(store.rules, LAMBDA d : d.id # rCall'.id)
            /\ Len(store'.rules) = Len(store.rules) - Cardinality(IdxOf(store, rCall'.id))]_vars

\* a delete of an id that is not in a store of one rule returned False
C22_Witness ==
    /\ rCall.name = "delete_rule"
    /\ ~rCall.ret
    /\ Len(store.rules) = 1
    /\ IdxOf(store, rCall.id) = {}

\* a delete took the first of two rules away and the other is left
C22_WitnessDeleted ==
    /\ rCall.name = "delete_rule"
    /\ rCall.ret
    /\ Len(store.rules) = 1
    /\ store.rules[1].id # rCall.id

\* mark_triggered found no rule in a store that has no file
C22_WitnessNoFile ==
    /\ rCall.name = "mark_triggered"
    /\ ~rCall.ret
    /\ store = NoFile

----------------------------------------------------------------------------
(* Claims about TradingEngine, checked under SpecEngine *)

IsStopStep == eCall' \in {"stop", "signal"}
CyclePcsOrAfter == CyclePcs \cup {"loop_79"}

\* C7: once a stop has been requested while start() is running, by stop() or
\* by a signal through _handle_shutdown, the cycle in flight runs to its end,
\* no new cycle is begun, start() returns with is_running False, and a second
\* stop changes nothing further.
C7_StopHonoured ==
    /\ [][(pc \in CyclePcs /\ IsStopStep) => pc' = pc]_vars
    /\ [][(pc \in CyclePcs) => (pc' \in CyclePcsOrAfter)]_vars
    /\ [][(stopAsked /\ pc = "loop_70") => pc' # "cycle_88"]_vars
    /\ [][(stop_requested /\ IsStopStep) =>
             UNCHANGED <<running, stop_requested, pc, handlers, sleep_left>>]_vars
    /\ (stopAsked /\ in_main) ~> (pc = "idle" /\ ~running)

\* C8 as the spec states it: no sleep time passes once the stop flag is set,
\* and the loop does not start to sleep when it is already set.
C8_StopCutsSleep ==
    /\ [](sleptAfterStop = 0)
    /\ [][(pc = "loop_82" /\ stop_requested) => pc' # "sleep_83"]_vars

\* C8 (amended): the loop does not sleep when the stop flag is set at its test
\* before the sleep; a stop requested after that test, also in the middle of
\* the sleep, does not shorten it: time.sleep returns only when the whole
\* sleep_time has passed, and the loop test that follows ends the loop
\* without another cycle.
C8_SleepRunsFull ==
    /\ [][(pc = "loop_82" /\ stop_requested) => pc' # "sleep_83"]_vars
    /\ [][(pc = "loop_82" /\ pc' = "sleep_83") =>
             (sleep_left' = sleep_time /\ sleep_time > 0)]_vars
    /\ [][(pc = "sleep_83" /\ sleep_left' # sleep_left) =>
             (sleep_left' = sleep_left - 1 /\ pc' = "sleep_83")]_vars
    /\ [][(pc = "sleep_83" /\ pc' # "sleep_83") =>
             (sleep_left = 0 /\ pc' = "loop_70")]_vars
    /\ [][(pc = "loop_70" /\ stop_requested) => (pc' = "loop_70" \/ pc' = "finally_55")]_vars

\* C8 witness: a stop came as the sleep began, the sleep ran for all of
\* poll_interval all the same, and the loop is about to end
C8_Witness ==
    /\ pc = "loop_70"
    /\ stop_requested
    /\ sleep_time = poll_interval
    /\ sleptAfterStop = poll_interval
    /\ sleep_left = 0

\* C9: an exception raised by a cycle is caught at the loop: it neither ends
\* the loop nor leaves start(); the sleep that follows is the normal
\* max(0, poll_interval - elapsed), and unless a stop is requested the next
\* cycle begins, however many cycles in a row have failed.
C9_CycleFailureContained ==
    /\ [][(pc \in CyclePcs) => (pc' \in CyclePcsOrAfter)]_vars
    /\ [][(pc # "idle" /\ pc' = "idle" /\ exit' = "raise") => pc = "start_44"]_vars
    /\ [](pc \in {"loop_82", "sleep_83"} => sleep_time = Max(0, poll_interval - elapsed))
    /\ [][(pc = "loop_70" /\ pc' = "finally_55") => stop_requested]_vars
    /\ (fails > 0 /\ pc = "loop_79" /\ cycles < MaxCycles)
          ~> (pc = "cycle_88" \/ stop_requested)

\* C9 witness: a third cycle begins after two cycles in a row have raised
C9_Witness ==
    /\ pc = "cycle_88"
    /\ fails >= 2
    /\ running
    /\ ~stop_requested

\* C10: is_running is True only while control is inside start(): False before
\* the first start() and after every exit of start(), by return or by exception.
C10_RunningOnlyInsideStart == running => InStart

----------------------------------------------------------------------------
(* Claims about TradingEngine.run_once, checked under SpecEngineOnce *)

\* C11: run_once() works whatever the loop's flags are: with the market open
\* it calls the evaluator exactly once and returns the evaluator's order ids,
\* with the market closed it returns the empty list and does not call the
\* evaluator, and the call leaves _running and _stop_requested as they were.
C11_RunOnceIgnoresLoopState ==
    /\ [](onceCall.name = "run_once" =>
            /\ (onceCall.market = "open") =>
                  /\ onceCall.out.evaluator_calls = 1
                  /\ ~onceCall.evaluator.raised =>
                        /\ ~onceCall.out.raised
                        /\ onceCall.out.ret = onceCall.evaluator.order_ids
            /\ (onceCall.market = "closed") =>
                  /\ onceCall.out.evaluator_calls = 0
                  /\ ~onceCall.out.raised
                  /\ onceCall.out.ret = <<>>)
    /\ [][(eCall' = "run_once") => UNCHANGED <<running, stop_requested, pc>>]_vars

\* run_once() returned the evaluator's two order ids while the loop was
\* running with a stop already requested
C11_Witness ==
    /\ eCall = "run_once"
    /\ running /\ stop_requested
    /\ onceCall.market = "open"
    /\ onceCall.out.evaluator_calls = 1
    /\ onceCall.out.ret = <<"o1", "o2">>

\* run_once() met a closed market while no loop was running
C11_WitnessClosed ==
    /\ eCall = "run_once"
    /\ ~running /\ ~stop_requested
    /\ onceCall.market = "closed"
    /\ onceCall.out.ret = <<>>

----------------------------------------------------------------------------
(* Claims about Backtester.run, checked under SpecBacktest *)

\* C15: the backtester evaluates every rule it is given, whatever its enabled
\* and triggered flags and its condition, with the predicate of live
\* trading: at each day's price p it treats the rule as triggering exactly
\* when Rule.check(p) returns True.
C15_SameTriggerAsLive ==
    btCheck.rule_i # 0 =>
        btCheck.triggered = Rule_check(btCheck.rule, btCheck.current_price).ret

\* the rule the loop is about to look at, its price, and whether its fill is
\* possible: the cash for a buy, a held position for a sell
AtRule == btPc = "rules" /\ rule_i <= Len(bt_rules)
RuleAt == bt_rules[rule_i]
PriceAt == prices[RuleAt.symbol]
FillPossible ==
    IF RuleAt.action = "BUY"
    THEN cash >= PriceAt * RuleAt.quantity
    ELSE RuleAt.symbol \in DOMAIN bt_positions

\* C16: run() never marks a rule triggered or disabled: every rule's flags
\* and fields are at every moment what they were when run() was given them;
\* and an enabled rule whose condition holds at the day's price fills on that
\* day whenever the fill is possible, on as many days as that happens.
C16_RulesKeptAndRefire ==
    /\ [](bt_rules = rules_given)
    /\ [][(AtRule /\ RuleAt.enabled /\ ConditionHolds(RuleAt, PriceAt) /\ FillPossible) =>
            /\ Len(trades') = Len(trades) + 1
            /\ trades'[Len(trades')].rule_id = RuleAt.id
            /\ trades'[Len(trades')].timestamp = day
            /\ SubSeq(trades', 1, Len(trades)) = trades]_vars

\* a run that returned with one rule's fills on three different days, the
\* rule as it was given
C16_Witness ==
    /\ btPc = "done"
    /\ bt_rules = rules_given
    /\ \E i, j, k \in 1..Len(trades) :
          /\ trades[i].rule_id = trades[j].rule_id
          /\ trades[j].rule_id = trades[k].rule_id
          /\ trades[i].timestamp < trades[j].timestamp
          /\ trades[j].timestamp < trades[k].timestamp

\* the quantity of a symbol traded on one side by the first n trades
RECURSIVE TradedQty(_, _, _)
TradedQty(symbol, side, n) ==
    IF n = 0
    THEN 0
    ELSE TradedQty(symbol, side, n - 1)
            + (IF trades[n].symbol = symbol /\ trades[n].side = side
               THEN trades[n].quantity ELSE 0)

\* what the first n trades leave held of a symbol
HeldAfter(symbol, n) == TradedQty(symbol, "buy", n) - TradedQty(symbol, "sell", n)

\* the rule a trade names
RuleOf(trade) ==
    rules_given[CHOOSE i \in 1..Len(rules_given) : rules_given[i].id = trade.rule_id]

\* C17: at every moment of a run every symbol in the position ledger has a
\* strictly positive quantity (an entry is removed when it reaches zero), every
\* recorded sell has the quantity min(held before it, its rule's quantity),
\* and for each symbol the held quantity is the total quantity of its buys
\* minus the total quantity of its sells.
C17_LedgerInvariant ==
    /\ \A s \in DOMAIN bt_positions : bt_positions[s].qty > 0
    /\ \A k \in 1..Len(trades) :
          trades[k].side = "sell" =>
              trades[k].quantity
                  = Min(HeldAfter(trades[k].symbol, k - 1), RuleOf(trades[k]).quantity)
    /\ \A s \in Symbols :
          (IF s \in DOMAIN bt_positions THEN bt_positions[s].qty ELSE 0)
              = HeldAfter(s, Len(trades))

\* a sell took all that was held, less than its rule's quantity, and the
\* entry is gone
C17_Witness ==
    /\ Len(trades) >= 2
    /\ trades[Len(trades)].side = "sell"
    /\ trades[Len(trades)].quantity < RuleOf(trades[Len(trades)]).quantity
    /\ trades[Len(trades)].symbol \notin DOMAIN bt_positions

\* a sell of less than what was held left the entry with the rest
C17_WitnessPartial ==
    /\ Len(trades) >= 2
    /\ trades[Len(trades)].side = "sell"
    /\ trades[Len(trades)].symbol \in DOMAIN bt_positions
    /\ bt_positions[trades[Len(trades)].symbol].qty
           = HeldAfter(trades[Len(trades)].symbol, Len(trades) - 1)
                - RuleOf(trades[Len(trades)]).quantity

\* what is held of a symbol, at the day's price
HeldValue(s) ==
    IF s \in DOMAIN bt_positions THEN bt_positions[s].qty * prices[s] ELSE 0

InRun == btPc \in {"day", "rules", "done"}

\* C20: a run of N days leaves an equity curve of N + 1 samples: the first
\* is the initial capital, and each day's sample, taken after all of that
\* day's fills, is the cash plus the held quantities at that day's prices;
\* final_capital is the last sample and total_return is final_capital minus
\* the initial capital; a run of 0 days returns the initial capital as the
\* final capital and no trades.
C20_EquityCurve ==
    /\ InRun =>
          /\ Len(equity_curve) = day + 1
          /\ equity_curve[1] = initial_capital
    /\ (btPc \in {"day", "done"} /\ day > 0) =>
          equity_curve[day + 1] = cash + HeldValue("AAPL") + HeldValue("TSLA")
    /\ btPc = "done" =>
          /\ Len(equity_curve) = days + 1
          /\ result.final_capital = equity_curve[days + 1]
          /\ result.total_return = result.final_capital - initial_capital
          /\ result.trades = trades
          /\ days = 0 =>
                /\ result.final_capital = initial_capital
                /\ result.total_return = 0
                /\ result.trades = <<>>
                /\ result.total_trades = 0

\* a run of three days returned with a position held, a last sample that is
\* not the cash alone, and a return that is not 0
C20_Witness ==
    /\ btPc = "done"
    /\ days = 3
    /\ Len(equity_curve) = 4
    /\ DOMAIN bt_positions # {}
    /\ result.final_capital # cash
    /\ result.total_return # 0

\* a run of no days returned
C20_WitnessNoDays ==
    /\ btPc = "done"
    /\ days = 0
    /\ result.final_capital = initial_capital
    /\ equity_curve = <<initial_capital>>

\* the loop has just looked at a rule: what it met is in btCheck
JustLooked == btPc = "rules" /\ btCheck.rule_i # 0 /\ btCheck.rule_i = rule_i - 1

\* C25: with an initial capital of at least 0 the cash is never negative
\* during a run; a triggered buy whose cost, the price times the rule's
\* quantity, exceeds the cash is skipped entirely (cash and position ledger
\* unchanged, no trade appended), and so is a triggered sell of a symbol with
\* no held position.
C25_CashNeverNegative ==
    /\ [](initial_capital >= 0 => cash >= 0)
    /\ [][(/\ AtRule
           /\ RuleAt.enabled
           /\ ConditionHolds(RuleAt, PriceAt)
           /\ \/ RuleAt.action = "BUY" /\ PriceAt * RuleAt.quantity > cash
              \/ RuleAt.action = "SELL" /\ RuleAt.symbol \notin DOMAIN bt_positions) =>
              /\ cash' = cash
              /\ bt_positions' = bt_positions
              /\ trades' = trades]_vars

\* a triggered buy was skipped with some cash left, less than its cost, after
\* an earlier buy had filled
C25_Witness ==
    /\ JustLooked
    /\ btCheck.rule.action = "BUY"
    /\ btCheck.triggered
    /\ ~btCheck.filled
    /\ btCheck.cash > 0
    /\ btCheck.cash < btCheck.current_price * btCheck.rule.quantity
    /\ cash = btCheck.cash
    /\ Len(trades) >= 1

\* a triggered sell was skipped with nothing held of its symbol
C25_WitnessSell ==
    /\ JustLooked
    /\ btCheck.rule.action = "SELL"
    /\ btCheck.triggered
    /\ ~btCheck.filled
    /\ btCheck.held = 0
    /\ cash = btCheck.cash

\* the cash plus what is held, at the day's prices
MarkedEquity == cash + HeldValue("AAPL") + HeldValue("TSLA")

\* what the day's walk adds to the value of what is held of a symbol
WalkGain(s) ==
    IF s \in DOMAIN bt_positions
    THEN bt_positions[s].qty * (prices'[s] - prices[s])
    ELSE 0

\* C27: fills are equity-neutral at the fill price: within a day any buy or
\* sell fill leaves the cash plus the held quantities at that day's prices
\* unchanged, so a day's equity sample differs from the previous day's only
\* by the price changes of the positions held when the day began: the
\* day's walk moves the marked equity from the previous sample by exactly
\* those changes, every rule of the day leaves it where it is, and the
\* day's sample is what it then is.
C27_FillsEquityNeutral ==
    /\ [][(btPc = "rules" /\ btPc' = "rules") =>
              MarkedEquity' = MarkedEquity]_vars
    /\ [][(btPc = "day" /\ btPc' = "rules") =>
              /\ MarkedEquity = equity_curve[Len(equity_curve)]
              /\ MarkedEquity' = MarkedEquity + WalkGain("AAPL") + WalkGain("TSLA")
              /\ bt_positions' = bt_positions]_vars
    /\ [][(btPc = "rules" /\ btPc' = "day") =>
              equity_curve'[Len(equity_curve')] = MarkedEquity]_vars

\* a sell of part of a position has just filled, and cash and position
\* together are worth what they were before it
C27_Witness ==
    /\ JustLooked
    /\ btCheck.filled
    /\ btCheck.rule.action = "SELL"
    /\ DOMAIN bt_positions = {"AAPL"}
    /\ cash > btCheck.cash
    /\ MarkedEquity = btCheck.cash + btCheck.held * btCheck.current_price

\* a buy has just filled, likewise
C27_WitnessBuy ==
    /\ JustLooked
    /\ btCheck.filled
    /\ btCheck.rule.action = "BUY"
    /\ DOMAIN bt_positions = {"AAPL"}
    /\ cash < btCheck.cash
    /\ MarkedEquity = btCheck.cash + btCheck.held * btCheck.current_price

\* a day that began with a position ended with a sample that is not the
\* previous day's
C27_WitnessWalk ==
    /\ btPc = "day"
    /\ day >= 2
    /\ DOMAIN bt_positions # {}
    /\ equity_curve[day + 1] # equity_curve[day]

\* the sells among the trades of the result
SellsOf(ts) == {k \in 1..Len(ts) : ts[k].side = "sell"}

\* C26: every sell a run records is classified as a completed round trip:
\* winning_trades + losing_trades is the number of sell trades in the
\* result's trade list, also when one buy is sold off by several smaller sells.
C26_EverySellClassified ==
    btPc = "done" =>
        result.winning_trades + result.losing_trades
            = Cardinality(SellsOf(result.trades))

----------------------------------------------------------------------------
(* Claims about the win/loss pairing, checked under SpecPairing *)

IsBuyOf(k, symbol) == metricsIn[k].side = "buy" /\ metricsIn[k].symbol = symbol
IsSellOf(k, symbol) == metricsIn[k].side = "sell" /\ metricsIn[k].symbol = symbol

\* how many buys of the symbol come before the k-th trade
BuysBefore(symbol, k) == Cardinality({j \in 1..(k - 1) : IsBuyOf(j, symbol)})

\* how many sells of the symbol before the k-th trade found a buy left
RECURSIVE PairedBefore(_, _)
PairedBefore(symbol, k) ==
    IF k <= 1
    THEN 0
    ELSE PairedBefore(symbol, k - 1)
            + (IF /\ IsSellOf(k - 1, symbol)
                  /\ BuysBefore(symbol, k - 1) > PairedBefore(symbol, k - 1)
               THEN 1 ELSE 0)

\* the k-th trade is a sell with an earlier buy of its symbol not yet consumed
IsPaired(k) ==
    /\ metricsIn[k].side = "sell"
    /\ BuysBefore(metricsIn[k].symbol, k) > PairedBefore(metricsIn[k].symbol, k)

\* the oldest earlier buy of its symbol that no earlier sell has consumed
PairOf(k) ==
    CHOOSE j \in 1..(k - 1) :
        /\ IsBuyOf(j, metricsIn[k].symbol)
        /\ BuysBefore(metricsIn[k].symbol, j) = PairedBefore(metricsIn[k].symbol, k)

WinningPairs ==
    {k \in 1..Len(metricsIn) :
        IsPaired(k) /\ metricsIn[k].price > metricsIn[PairOf(k)].price}
LosingPairs ==
    {k \in 1..Len(metricsIn) :
        IsPaired(k) /\ metricsIn[k].price <= metricsIn[PairOf(k)].price}

\* buy@100, buy@110, sell@105, sell@120 of one symbol
PairingExample ==
    <<BacktestTrade(0, "AAPL", "buy", 1, 100, "b1"),
      BacktestTrade(0, "AAPL", "buy", 1, 110, "b1"),
      BacktestTrade(0, "AAPL", "sell", 1, 105, "s1"),
      BacktestTrade(0, "AAPL", "sell", 1, 120, "s1")>>

\* C18: going through the trades in order, each sell is paired with the
\* oldest earlier buy of the same symbol that is not yet consumed, and counts
\* as winning iff its price is strictly above that buy's price and as losing
\* otherwise; buys of other symbols are never consumed; win_rate is
\* winning / (winning + losing), and 0 when nothing was paired; the trades
\* buy@100, buy@110, sell@105, sell@120 give 2 winning and 0 losing.
C18_FifoPairing ==
    metricsOut.computed =>
        /\ metricsOut.value.winning = Cardinality(WinningPairs)
        /\ metricsOut.value.losing = Cardinality(LosingPairs)
        /\ LET total == metricsOut.value.winning + metricsOut.value.losing
           IN  IF total = 0
               THEN metricsOut.value.win_rate = Zero
               ELSE metricsOut.value.win_rate.num * total
                        = metricsOut.value.winning * metricsOut.value.win_rate.den
        /\ (metricsIn = PairingExample) =>
              (metricsOut.value.winning = 2 /\ metricsOut.value.losing = 0)

\* the example of the claim has been paired
C18_Witness ==
    /\ metricsOut.computed
    /\ metricsIn = PairingExample
    /\ metricsOut.value.winning = 2
    /\ metricsOut.value.losing = 0
    /\ metricsOut.value.win_rate = Frac(1, 1)

\* a sell between the buys of another symbol consumed none of them
C18_WitnessOtherSymbol ==
    /\ metricsOut.computed
    /\ Len(metricsIn) = 3
    /\ IsBuyOf(1, "TSLA") /\ IsSellOf(2, "AAPL") /\ IsSellOf(3, "TSLA")
    /\ metricsOut.value.winning + metricsOut.value.losing = 1

----------------------------------------------------------------------------
(* Claims about the maximum drawdown, checked under SpecDrawdown *)

\* P_i: the largest of the first i samples
RunningPeak(i) ==
    CHOOSE m \in {metricsIn[j] : j \in 1..i} : \A j \in 1..i : m >= metricsIn[j]

\* (P_i - v_i) / P_i, for a positive first sample
DrawdownAt(i) == Frac(RunningPeak(i) - metricsIn[i], RunningPeak(i))

DrawdownExample == <<100000, 110000, 90000, 95000>>

\* C19: for every equity curve v_1..v_n with a positive first sample,
\* max_drawdown is the largest (P_i - v_i) / P_i over i, P_i being the largest
\* sample up to and including i; it is 0 for a curve that never decreases,
\* lies in [0, 1] when no sample is negative, and is 20000/110000 for
\* [100000, 110000, 90000, 95000].
C19_MaxDrawdown ==
    (metricsOut.computed /\ metricsIn[1] > 0) =>
        /\ ~IsRaised(metricsOut.value)
        /\ \E i \in 1..Len(metricsIn) : metricsOut.value = DrawdownAt(i)
        /\ \A i \in 1..Len(metricsIn) : ~FracGreater(DrawdownAt(i), metricsOut.value)
        /\ (\A i \in 2..Len(metricsIn) : metricsIn[i] >= metricsIn[i - 1]) =>
              metricsOut.value = Zero
        /\ (\A i \in 1..Len(metricsIn) : metricsIn[i] >= 0) =>
              (metricsOut.value.num >= 0 /\ metricsOut.value.num <= metricsOut.value.den)
        /\ (metricsIn = DrawdownExample) =>
              metricsOut.value = Frac(20000, 110000)

\* the example of the claim has been measured
C19_Witness ==
    /\ metricsOut.computed
    /\ metricsIn = DrawdownExample
    /\ metricsOut.value = [num |-> 2, den |-> 11]

\* a curve that goes into debt has a drawdown above 1
C19_WitnessDebt ==
    /\ metricsOut.computed
    /\ metricsIn[1] > 0
    /\ ~IsRaised(metricsOut.value)
    /\ metricsOut.value.num > metricsOut.value.den

----------------------------------------------------------------------------
(* Claims about the rules file under two processes, checked under SpecRace *)

\* C24: from positions of at most max_position_size shares, buy orders that
\* check_order approved and that filled in full never leave more than
\* max_position_size shares held in a symbol
C24_PositionSizeBounded ==
    \A s \in Symbols : shares[s] <= limits.max_position_size

BothDone == \A p \in Procs : proc[p].pc = "done"

\* C23: the triggered latch survives interleaving: however the steps of
\* enable_rule(id, e) in one process interleave with those of
\* mark_triggered(id) in the engine's process, once mark_triggered has
\* returned True and both calls have finished the stored rule has
\* triggered = True.
C23_LatchSurvivesInterleaving ==
    (/\ BothDone
     /\ proc["mark_triggered"].ret
     /\ proc["enable_rule"].id = proc["mark_triggered"].id) =>
        /\ get_rule(store, proc["mark_triggered"].id) # None
        /\ get_rule(store, proc["mark_triggered"].id).triggered

====
